---- MODULE Spec2Model ----
(***************************************************************************)
(* A model of the cicd-operator core: the IntegrationJob reconciler        *)
(* (controllers/integrationjob_controller.go) with its finalizer protocol, *)
(* and the approve plugin with the in-memory git provider it talks to.     *)
(*                                                                         *)
(* One reconcile pass is one action.  What a pass did is recorded in the   *)
(* variable `pass`: the stored job before and after, the calls it made in  *)
(* order, and the error it returned to the control loop.                   *)
(***************************************************************************)
EXTENDS Integers, Sequences, FiniteSets, TLC

\* ------------------------------------------------------------------ bounds

\* Finalizers of other controllers that may sit on a job.
MaxOthers == 2
\* Reconcile passes in one behaviour.
MaxPasses == 4
\* Webhooks and commands the approve plugin handles in one behaviour.
MaxEvents == 1

\* ------------------------------------------------------- reconciler: data

VARIABLES
    jobs,       \* the resource store: job name -> stored IntegrationJob
    pass,       \* the record of the last reconcile pass
    npass,      \* number of reconcile passes so far
    slots,      \* scheduler: the jobs that hold a concurrency slot
    released,   \* scheduler: job name -> how often its slot was released
    removed,    \* job name -> how often the job finalizer was removed from the store
    delNotified, \* job name -> how often the scheduler was notified of the deletion
    delReleased, \* job name -> how often a deletion pass released the job's slot
    running,    \* job name -> the pass that is under way on the job, with its locals
    alone       \* job name -> the job as its own passes make it, run one by one

jobVars == <<jobs, pass, npass, slots, released, removed, delNotified, delReleased,
             running, alone>>

\* The state of the approve plugin's remote side.
VARIABLES
    pullRequest, \* the remote pull request: author, state, label list
    comments,   \* the remote comment and review history of the pull request
    clock,      \* the remote clock that stamps new comments
    handled,    \* the record of the last webhook or command the plugin handled
    nhandled,   \* number of webhooks and commands handled so far
    engine,     \* the account of the token the plugin makes its remote calls with
    delivery,   \* the label events the provider has sent and the plugin has not handled
    labelBefore, \* whether the pull request had the approved label before a user changed it
    handlers    \* the handler calls under way at the same time: where each of them is

apprVars ==
    <<pullRequest, comments, clock, handled, nhandled, engine, delivery, labelBefore, handlers>>

\* The in-memory provider: its store and the bookkeeping of the calls made on it.
VARIABLES
    Repos,      \* var Repos map[string]*Repo: nil, or repository name -> Repo
    gitfakeUsers, \* var Users map[string]*git.User: nil, or user name -> User
    Branches,   \* var Branches map[string]*git.Branch: nil, or branch name -> Branch
    result,     \* what the last call on the provider, or on a pure function, returned
    ncalls      \* number of calls so far

provVars == <<Repos, gitfakeUsers, Branches, result, ncalls>>

\* The HTTP helpers of package git: a paged listing and the reading of errors.
VARIABLES
    server,     \* the remote listing: its pages, its last Link header, where it fails
    call,       \* the running GetPaginatedRequest: position, uri, requests, callbacks
    errIn,      \* the error value handed to CheckRateLimitGetResetTime
    now         \* time.Now().Unix()

httpVars == <<server, call, errIn, now>>

vars == <<jobVars, apprVars, provVars, httpVars>>

\* The finalizer marker of this controller.
finalizer == "cicd.tmax.io/finalizer"

OtherNames == <<"other-a", "other-b", "other-c", "other-d">>
Others == {OtherNames[i] : i \in 1..MaxOthers}

JobNames == {"job-1"}

\* cicdv1.IntegrationJobState values
IntegrationJobStatePending == "Pending"
IntegrationJobStateRunning == "Running"
IntegrationJobStateCompleted == "Completed"
IntegrationJobStateFailed == "Failed"

\* The texts of the errors the collaborators return (err.Error()).
ErrGet == "get job: internal error"
ErrPatch == "patch job: conflict"
ErrConfig == "integrationconfig not found"
ErrRun == "get pipelinerun: internal error"
ErrReflect == "reflect status: error"
ErrStatusPatch == "patch status: conflict"

\* A freshly created job: no finalizer, no deletion timestamp, empty status.
EmptyStatus == [state |-> "", message |-> "", completed |-> FALSE]
NewJob == [exists |-> TRUE, finalizers |-> <<>>, deleting |-> FALSE, status |-> EmptyStatus]

Range(s) == {s[i] : i \in 1..Len(s)}

\* How often x occurs in the sequence s.
RECURSIVE Count(_, _)
Count(s, x) ==
    IF s = <<>> THEN 0
    ELSE (IF Head(s) = x THEN 1 ELSE 0) + Count(Tail(s), x)

\* One call of a pass: the operation, what it was given, how it ended.
Ev(op, arg, res) == [op |-> op, arg |-> arg, res |-> res]

\* ------------------------------------------------------------ the store

\* client.Patch with MergeFrom(original): the finalizer list of the stored object
\* becomes the instance's list.  The store removes an object that is being
\* deleted as soon as its finalizer list is empty.
StorePatch(stored, fins) ==
    IF stored.deleting /\ fins = <<>>
    THEN [stored EXCEPT !.finalizers = fins, !.exists = FALSE]
    ELSE [stored EXCEPT !.finalizers = fins]

\* client.Status().Patch: only the status stanza of the stored object changes.
StoreStatusPatch(stored, status) == [stored EXCEPT !.status = status]

\* ------------------------------------------------------------ scheduler

\* scheduler.Notify(job).  For a job that is being deleted or is terminal the
\* scheduler releases the slot the job holds, and does nothing when it holds none;
\* a live job may be admitted (it takes a slot).
Notify(sch, j, inst, admit) ==
    IF inst.deleting \/ inst.status.completed
    THEN IF j \in sch.slots
         THEN [slots |-> sch.slots \ {j},
               released |-> [sch.released EXCEPT ![j] = @ + 1]]
         ELSE sch
    ELSE IF admit THEN [sch EXCEPT !.slots = @ \cup {j}] ELSE sch

\* ---------------------------------------------------- reconciler: steps

\* The loop of handleFinalizer: the index of the first entry equal to x, 0 if none.
RECURSIVE IndexOf(_, _)
IndexOf(s, x) ==
    IF s = <<>> THEN 0
    ELSE IF Head(s) = x THEN 1
    ELSE LET r == IndexOf(Tail(s), x) IN IF r = 0 THEN 0 ELSE r + 1

\* RemoveFinalizer without the move of the last entry into position idx.
RemoveFinalizer_DropLast(fins, idx) ==
    IF Len(fins) = 1 THEN <<>> ELSE SubSeq(fins, 1, Len(fins) - 1)

\* Delete finalizer: a list of one becomes nil; otherwise the last entry is moved
\* into position idx and the list is cut by one.
RemoveFinalizer(fins, idx) ==
    IF Len(fins) = 1 THEN <<>>
    ELSE LET last == Len(fins)
         IN SubSeq([fins EXCEPT ![idx] = fins[last]], 1, last - 1)

\* AddFinalizer appending the marker twice.
AddFinalizer_Twice(fins) == Append(Append(fins, finalizer), finalizer)

\* instance.Finalizers = append(instance.Finalizers, finalizer)
AddFinalizer(fins) == Append(fins, finalizer)

\* handleFinalizer(instance, original).  Returns the exit flag, the error text
\* ("" is nil), the instance and the store afterwards, the calls made, and the
\* instances handed to the scheduler.
handleFinalizer(instance, stored, metaOk) ==
    LET idx == IndexOf(instance.finalizers, finalizer)
        found == idx > 0
    IN IF ~found
       THEN LET inst == [instance EXCEPT !.finalizers = AddFinalizer(@)]
            IN IF metaOk
               THEN [exit |-> TRUE, err |-> "", inst |-> inst,
                     store |-> StorePatch(stored, inst.finalizers),
                     events |-> <<Ev("Patch", "add", "ok")>>, notified |-> <<>>]
               ELSE [exit |-> FALSE, err |-> ErrPatch, inst |-> inst,
                     store |-> stored,
                     events |-> <<Ev("Patch", "add", "err")>>, notified |-> <<>>]
       ELSE IF instance.deleting /\ idx >= 1
       THEN LET inst == [instance EXCEPT !.finalizers = RemoveFinalizer(@, idx)]
            IN IF metaOk
               THEN [exit |-> TRUE, err |-> "", inst |-> inst,
                     store |-> StorePatch(stored, inst.finalizers),
                     events |-> <<Ev("Notify", "deletion", "ok"), Ev("Patch", "remove", "ok")>>,
                     notified |-> <<instance>>]
               ELSE [exit |-> FALSE, err |-> ErrPatch, inst |-> inst,
                     store |-> stored,
                     events |-> <<Ev("Notify", "deletion", "ok"), Ev("Patch", "remove", "err")>>,
                     notified |-> <<instance>>]
       ELSE [exit |-> FALSE, err |-> "", inst |-> instance, store |-> stored,
             events |-> <<>>, notified |-> <<>>]

\* patchJobFailed writing the whole instance (client.Update) instead of patching
\* the status stanza: the finalizer list of the instance reaches the store too.
patchJobFailed_Update(inst, stored, message, statusOk) ==
    LET st == [inst.status EXCEPT !.state = IntegrationJobStateFailed, !.message = message]
        i2 == [inst EXCEPT !.status = st]
    IN IF statusOk /\ stored.exists
       THEN [inst |-> i2, store |-> StorePatch(StoreStatusPatch(stored, st), i2.finalizers),
             events |-> <<Ev("StatusPatch", "failed", "ok")>>]
       ELSE [inst |-> i2, store |-> stored,
             events |-> <<Ev("StatusPatch", "failed", "err")>>]

\* patchJobFailed that sets the state and forgets the message.
patchJobFailed_NoMessage(inst, stored, message, statusOk) ==
    LET st == [inst.status EXCEPT !.state = IntegrationJobStateFailed]
        i2 == [inst EXCEPT !.status = st]
    IN IF statusOk /\ stored.exists
       THEN [inst |-> i2, store |-> StoreStatusPatch(stored, st),
             events |-> <<Ev("StatusPatch", "failed", "ok")>>]
       ELSE [inst |-> i2, store |-> stored,
             events |-> <<Ev("StatusPatch", "failed", "err")>>]

\* patchJobFailed(instance, original, message): the status is set to Failed with
\* the message and patched; a failure of the patch is logged only.
patchJobFailed(inst, stored, message, statusOk) ==
    LET st == [inst.status EXCEPT !.state = IntegrationJobStateFailed, !.message = message]
        i2 == [inst EXCEPT !.status = st]
    IN IF statusOk /\ stored.exists
       THEN [inst |-> i2, store |-> StoreStatusPatch(stored, st),
             events |-> <<Ev("StatusPatch", "failed", "ok")>>]
       ELSE [inst |-> i2, store |-> stored,
             events |-> <<Ev("StatusPatch", "failed", "err")>>]

\* instance.Status.SetDefaults(): an empty state becomes Pending.
SetDefaults(status) ==
    IF status.state = "" THEN [status EXCEPT !.state = IntegrationJobStatePending]
    ELSE status

\* pm.ReflectStatus(pr, instance, config): the status the run gives the job; a
\* nil run leaves the defaulted status, a finished run sets the completion time.
ReflectStatus(run, status) ==
    CASE run = "nil" -> status
      [] run = "running" -> [status EXCEPT !.state = IntegrationJobStateRunning]
      [] run = "succeeded" ->
            [status EXCEPT !.state = IntegrationJobStateCompleted, !.completed = TRUE]
      [] run = "failed" ->
            [state |-> IntegrationJobStateFailed, message |-> "pipelinerun failed",
             completed |-> TRUE]

\* What the fetch of the PipelineRun can give.
RunResults == {"notfound", "err", "running", "succeeded", "failed"}

\* The outcomes of the remote calls of one pass.  A pass ends at the first call
\* that fails (only the status patch of patchJobFailed follows a failure), so the
\* calls behind a failing one are given their default outcome.
PassInputs ==
    {in \in [getOk : BOOLEAN, metaOk : BOOLEAN, cfgOk : BOOLEAN, run : RunResults,
             reflectOk : BOOLEAN, statusOk : BOOLEAN, admit : BOOLEAN] :
        /\ ~in.getOk => in.metaOk /\ in.statusOk /\ ~in.admit
        /\ ~(in.getOk /\ in.metaOk) => in.cfgOk /\ ~in.admit
        /\ ~in.cfgOk => in.run = "notfound"
        /\ (~in.cfgOk \/ in.run = "err") => in.reflectOk}

\* persistStatus treating its own failure like the other errors of the pass: the
\* job is patched to Failed and nil is returned.
persistStatus_Swallow(inst, stored, statusOk) ==
    IF statusOk /\ stored.exists
    THEN [err |-> "", inst |-> inst, store |-> StoreStatusPatch(stored, inst.status),
          events |-> <<Ev("StatusPatch", "status", "ok")>>]
    ELSE LET f == patchJobFailed(inst, stored, ErrStatusPatch, TRUE)
         IN [err |-> "", inst |-> f.inst, store |-> f.store,
             events |-> <<Ev("StatusPatch", "status", "err")>> \o f.events]

\* Update IntegrationJob: the status patch that ends a successful pass; its
\* failure is returned to the control loop.
persistStatus(inst, stored, statusOk) ==
    IF statusOk /\ stored.exists
    THEN [err |-> "", inst |-> inst, store |-> StoreStatusPatch(stored, inst.status),
          events |-> <<Ev("StatusPatch", "status", "ok")>>]
    ELSE [err |-> ErrStatusPatch, inst |-> inst, store |-> stored,
          events |-> <<Ev("StatusPatch", "status", "err")>>]

\* A fetch or reflection error: the job is patched to Failed with the error's
\* text and the pass ends with a nil error.
failPass(inst, stored, message, statusOk, events) ==
    LET f == patchJobFailed(inst, stored, message, statusOk)
    IN [err |-> "", inst |-> f.inst, store |-> f.store, events |-> events \o f.events]

\* The part of Reconcile between the defer statement and the return: fetch the
\* config, fetch the run, default the status, reflect the run, patch the status.
statusWork(inst, stored, in) ==
    IF ~in.cfgOk
    THEN failPass(inst, stored, ErrConfig, in.statusOk, <<Ev("GetConfig", "", "err")>>)
    ELSE IF in.run = "err"
    THEN failPass(inst, stored, ErrRun, in.statusOk,
                  <<Ev("GetConfig", "", "ok"), Ev("GetRun", "", "err")>>)
    ELSE LET pr == IF in.run = "notfound" THEN "nil" ELSE in.run
             got == <<Ev("GetConfig", "", "ok"),
                      Ev("GetRun", "", IF pr = "nil" THEN "notfound" ELSE "ok")>>
             i1 == [inst EXCEPT !.status = SetDefaults(@)]
         IN IF ~in.reflectOk
            THEN failPass(i1, stored, ErrReflect, in.statusOk,
                          got \o <<Ev("ReflectStatus", pr, "err")>>)
            ELSE LET i2 == [i1 EXCEPT !.status = ReflectStatus(pr, @)]
                     p == persistStatus(i2, stored, in.statusOk)
                 IN [err |-> p.err, inst |-> p.inst, store |-> p.store,
                     events |-> got \o <<Ev("ReflectStatus", pr, "ok")>> \o p.events]

\* Notify called at the end of the successful path only, not deferred.
deferNotify_SuccessOnly(r) ==
    IF r.err = "" /\ r.events[Len(r.events)] = Ev("StatusPatch", "status", "ok")
    THEN [err |-> r.err, store |-> r.store,
          events |-> r.events \o <<Ev("Notify", "deferred", "ok")>>,
          notified |-> <<r.inst>>]
    ELSE [err |-> r.err, store |-> r.store, events |-> r.events, notified |-> <<>>]

\* defer r.scheduler.Notify(instance): the call runs when Reconcile returns, on
\* every path below the defer statement, with the instance as it is then.
deferNotify(r) ==
    [err |-> r.err, store |-> r.store,
     events |-> r.events \o <<Ev("Notify", "deferred", "ok")>>,
     notified |-> <<r.inst>>]

\* The part of Reconcile below the finalizer handling and the terminal check.
reconcileStatus(inst, stored, in) == deferNotify(statusWork(inst, stored, in))

\* A reconciler for which no job is terminal.
isTerminal_Never(inst) == FALSE

\* instance.Status.CompletionTime != nil: the job is terminal, the pass skips it
isTerminal(inst) == inst.status.completed

\* Reconcile(ctx, req) for job j under the call outcomes `in`: the error returned
\* to the control loop, the store afterwards, the calls made and the instances
\* handed to the scheduler.
reconcile(stored, in) ==
    IF ~stored.exists
    THEN [err |-> "", store |-> stored, events |-> <<Ev("Get", "", "notfound")>>,
          notified |-> <<>>]
    ELSE IF ~in.getOk
    THEN [err |-> ErrGet, store |-> stored, events |-> <<Ev("Get", "", "err")>>,
          notified |-> <<>>]
    ELSE LET got == <<Ev("Get", "", "ok")>>
             hf == handleFinalizer(stored, stored, in.metaOk)
         IN IF hf.err # ""
            THEN LET f == patchJobFailed(hf.inst, hf.store, hf.err, in.statusOk)
                 IN [err |-> "", store |-> f.store,
                     events |-> got \o hf.events \o f.events,
                     notified |-> hf.notified]
            ELSE IF hf.exit
            THEN [err |-> "", store |-> hf.store, events |-> got \o hf.events,
                  notified |-> hf.notified]
            ELSE IF isTerminal(hf.inst)
            THEN [err |-> "", store |-> hf.store, events |-> got, notified |-> <<>>]
            ELSE LET r == reconcileStatus(hf.inst, hf.store, in)
                 IN [err |-> r.err, store |-> r.store, events |-> got \o r.events,
                     notified |-> r.notified]

\* The scheduler after the Notify calls of a pass, in order.
RECURSIVE NotifyAll(_, _, _, _)
NotifyAll(sch, j, insts, admit) ==
    IF insts = <<>> THEN sch
    ELSE NotifyAll(Notify(sch, j, Head(insts), admit), j, Tail(insts), admit)

NoPass == [job |-> "", events |-> <<>>, err |-> ""]

\* No pass is under way on a job.
NoRun == [on |-> FALSE]

JobInit ==
    /\ jobs = [j \in JobNames |-> NewJob]
    /\ pass = NoPass
    /\ npass = 0
    /\ slots = {}
    /\ released = [j \in JobNames |-> 0]
    /\ removed = [j \in JobNames |-> 0]
    /\ delNotified = [j \in JobNames |-> 0]
    /\ delReleased = [j \in JobNames |-> 0]
    /\ running = [j \in JobNames |-> NoRun]
    /\ alone = [j \in JobNames |-> NewJob]

\* One reconcile pass of job j.
Reconcile(j, in) ==
    /\ npass < MaxPasses
    /\ LET r == reconcile(jobs[j], in)
           sch == NotifyAll([slots |-> slots, released |-> released], j, r.notified, in.admit)
       IN /\ jobs' = [jobs EXCEPT ![j] = r.store]
          /\ pass' = [job |-> j, events |-> r.events, err |-> r.err]
          /\ slots' = sch.slots
          /\ released' = sch.released
          /\ removed' = [removed EXCEPT ![j] =
                           IF /\ finalizer \in Range(jobs[j].finalizers)
                              /\ finalizer \notin Range(r.store.finalizers)
                           THEN @ + 1 ELSE @]
          /\ delNotified' = [delNotified EXCEPT ![j] =
                               @ + Count(r.events, Ev("Notify", "deletion", "ok"))]
          /\ delReleased' = [delReleased EXCEPT ![j] =
                               IF Ev("Notify", "deletion", "ok") \in Range(r.events)
                               THEN @ + (sch.released[j] - released[j]) ELSE @]
    /\ npass' = npass + 1
    /\ UNCHANGED <<running, alone, apprVars, provVars, httpVars>>

\* Another controller puts its finalizer on a job that is not being deleted.
AddOther(j, o) ==
    /\ jobs[j].exists /\ ~jobs[j].deleting
    /\ o \notin Range(jobs[j].finalizers)
    /\ jobs' = [jobs EXCEPT ![j].finalizers = Append(@, o)]
    /\ UNCHANGED <<pass, npass, slots, released, removed, delNotified, delReleased, running, alone,
                   apprVars, provVars, httpVars>>

\* Another controller takes its finalizer off.
RemoveOther(j, o) ==
    /\ jobs[j].exists
    /\ o \in Range(jobs[j].finalizers)
    /\ LET fins == SelectSeq(jobs[j].finalizers, LAMBDA f : f # o)
       IN jobs' = [jobs EXCEPT ![j] = StorePatch(@, fins)]
    /\ UNCHANGED <<pass, npass, slots, released, removed, delNotified, delReleased, running, alone,
                   apprVars, provVars, httpVars>>

\* A user deletes the job: the store sets the deletion timestamp, or removes the
\* object at once when no finalizer holds it.
Delete(j) ==
    /\ jobs[j].exists /\ ~jobs[j].deleting
    /\ jobs' = [jobs EXCEPT ![j] =
                  IF @.finalizers = <<>> THEN [@ EXCEPT !.exists = FALSE, !.deleting = TRUE]
                  ELSE [@ EXCEPT !.deleting = TRUE]]
    /\ UNCHANGED <<pass, npass, slots, released, removed, delNotified, delReleased, running, alone,
                   apprVars, provVars, httpVars>>

JobNext ==
    \/ \E j \in JobNames, in \in PassInputs : Reconcile(j, in)
    \/ \E j \in JobNames, o \in Others : AddOther(j, o)
    \/ \E j \in JobNames, o \in Others : RemoveOther(j, o)
    \/ \E j \in JobNames : Delete(j)

\* ------------------------------------------- reconciler: passes of two jobs

\* The jobs the workers of the controller reconcile at the same time.
ConcurrentJobs == {"job-1", "job-2"}

\* The outcomes of the calls of the passes that run side by side: the job is
\* read, the config is there, the run is under way or has succeeded; the patches
\* of the job and of its status may fail.
ConcurrentInputs ==
    {in \in PassInputs :
        /\ in.getOk /\ in.cfgOk /\ in.reflectOk /\ (in.metaOk => in.admit)
        /\ in.run \in {"running", "succeeded"}}

\* A Get that hands every pass the first job.
GetInstance_First(store, j) == store["job-1"]

\* r.Client.Get(ctx, req.NamespacedName, instance): the object the request names
GetInstance(store, j) == store[j]

\* A worker starts a pass of job j, on which no pass is under way: the job is
\* read into the instance of the pass.
ReconcileBegin(j, in) ==
    /\ npass < MaxPasses
    /\ ~running[j].on
    /\ running' = [running EXCEPT ![j] = [on |-> TRUE, inst |-> GetInstance(jobs, j),
                                          in |-> in]]
    /\ npass' = npass + 1
    /\ UNCHANGED <<jobs, pass, slots, released, removed, delNotified, delReleased, alone,
                   apprVars, provVars, httpVars>>

\* The pass of job j goes through the rest of Reconcile with its instance and
\* returns.
ReconcileEnd(j) ==
    /\ running[j].on
    /\ LET in == running[j].in
           r == reconcile(running[j].inst, in)
           sch == NotifyAll([slots |-> slots, released |-> released], j, r.notified, in.admit)
       IN /\ jobs' = [jobs EXCEPT ![j] = r.store]
          /\ pass' = [job |-> j, events |-> r.events, err |-> r.err]
          /\ slots' = sch.slots
          /\ released' = sch.released
          /\ alone' = [alone EXCEPT ![j] = reconcile(@, in).store]
    /\ running' = [running EXCEPT ![j] = NoRun]
    /\ UNCHANGED <<npass, removed, delNotified, delReleased, apprVars, provVars, httpVars>>

\* A user deletes job j while no pass is under way on it.
DeleteIdle(j) ==
    /\ ~running[j].on
    /\ jobs[j].exists /\ ~jobs[j].deleting
    /\ LET deleted(job) == IF job.finalizers = <<>>
                           THEN [job EXCEPT !.exists = FALSE, !.deleting = TRUE]
                           ELSE [job EXCEPT !.deleting = TRUE]
       IN /\ jobs' = [jobs EXCEPT ![j] = deleted(@)]
          /\ alone' = [alone EXCEPT ![j] = deleted(@)]
    /\ UNCHANGED <<pass, npass, slots, released, removed, delNotified, delReleased, running,
                   apprVars, provVars, httpVars>>

ConcurrentInit ==
    /\ jobs = [j \in ConcurrentJobs |-> NewJob]
    /\ pass = NoPass
    /\ npass = 0
    /\ slots = {}
    /\ released = [j \in ConcurrentJobs |-> 0]
    /\ removed = [j \in ConcurrentJobs |-> 0]
    /\ delNotified = [j \in ConcurrentJobs |-> 0]
    /\ delReleased = [j \in ConcurrentJobs |-> 0]
    /\ running = [j \in ConcurrentJobs |-> NoRun]
    /\ alone = [j \in ConcurrentJobs |-> NewJob]

ConcurrentNext ==
    \/ \E j \in ConcurrentJobs, in \in ConcurrentInputs : ReconcileBegin(j, in)
    \/ \E j \in ConcurrentJobs : ReconcileEnd(j)
    \/ \E j \in ConcurrentJobs : DeleteIdle(j)

\* ------------------------------------------------- approve plugin: data

\* const approvedLabel
approvedLabel == "approved"
\* Command types for approve handler
CommandTypeApprove == "approve"
CommandTypeGitLabApprove == "ci-approve"

\* git.PullRequestState, git.PullRequestReviewState, git.PullRequestAction
PullRequestStateOpen == "open"
PullRequestStateClosed == "closed"
PullRequestReviewStateApproved == "approved"
PullRequestReviewStateUnapproved == "unapproved"
PullRequestActionLabeled == "labeled"
PullRequestActionUnlabeled == "unlabeled"

\* git.EventType
EventTypePullRequest == "pull_request"
EventTypePullRequestReview == "pull_request_review"
EventTypeIssueComment == "issue_comment"

\* The accounts of the remote git server.
Alice == [ID |-> 1, Name |-> "alice"]
Bob == [ID |-> 2, Name |-> "bob"]
Carol == [ID |-> 3, Name |-> "carol"]
Dave == [ID |-> 4, Name |-> "dave"]
Users == {Alice, Bob, Carol, Dave}

\* Repo.UserCanWrite of the in-memory provider: dave is unknown to the repository.
UserCanWrite == [u \in {"alice", "bob", "carol"} |-> u # "carol"]

\* Labels users put on pull requests besides the approved label.
OtherLabel == "kind/bug"

\* Error texts of the remote git server.
ErrNoSuchUser == "404 no such user"
ErrRemote == "502 bad gateway"
ErrLabelDoesNotExist == "404 Label does not exist"
ErrGitCli == "cannot create git client"

\* One remote call of a handling: operation, argument, user it names, outcome.
Call(op, arg, user, res) == [op |-> op, arg |-> arg, user |-> user, res |-> res]

\* A comment of the history.  A comment a user wrote carries its text, a review
\* its review state; the plugin's notices carry their template and the user named.
Comment(author, body, user, review, at) ==
    [author |-> author, body |-> body, user |-> user, review |-> review, at |-> at]

\* The remote state a handling works on, with the calls made so far.
Remote == [labels |-> pullRequest.labels, comments |-> comments, calls |-> <<>>]

\* The outcomes of the remote calls of one handling: the config (token, client),
\* the label call, the comment post, the listings.
HandleInputs ==
    {in \in [ic : {"ok", "notoken", "clierr"}, label : {"ok", "absent", "err"},
             comment : BOOLEAN, list : BOOLEAN] :
        in.ic # "ok" => in.label = "ok" /\ in.comment /\ in.list}

\* ------------------------------------------- in-memory provider: calls

\* Client.CanUserWriteToRepo(user): the privilege of the user's name, an error
\* for a name the repository does not know.
CanUserWriteToRepo(user) ==
    IF user.Name \in DOMAIN UserCanWrite
    THEN [ok |-> UserCanWrite[user.Name], err |-> ""]
    ELSE [ok |-> FALSE, err |-> ErrNoSuchUser]

\* pr.Labels = append(pr.Labels, git.IssueLabel{Name: label})
appendLabel(labels, label) == Append(labels, label)

\* The loop and the cut of DeleteLabel: the first entry with the name is removed.
cutLabel(labels, label) ==
    LET idx == IndexOf(labels, label)
    IN IF idx = 0 THEN labels
       ELSE SubSeq(labels, 1, idx - 1) \o SubSeq(labels, idx + 1, Len(labels))

\* Client.SetLabel: pr.Labels = append(pr.Labels, label)
SetLabel(R, label, in) ==
    IF in.label = "err"
    THEN [err |-> ErrRemote,
          R |-> [R EXCEPT !.calls = Append(@, Call("SetLabel", label, "", "err"))]]
    ELSE [err |-> "",
          R |-> [R EXCEPT !.labels = appendLabel(@, label),
                          !.calls = Append(@, Call("SetLabel", label, "", "ok"))]]

\* DeleteLabel: the first entry with the name is cut out of the list.  A remote
\* server may answer the delete of a label the PR does not carry with an error.
DeleteLabel(R, label, in) ==
    LET idx == IndexOf(R.labels, label)
    IN IF in.label = "err"
       THEN [err |-> ErrRemote,
             R |-> [R EXCEPT !.calls = Append(@, Call("DeleteLabel", label, "", "err"))]]
       ELSE IF in.label = "absent" /\ idx = 0
       THEN [err |-> ErrLabelDoesNotExist,
             R |-> [R EXCEPT !.calls = Append(@, Call("DeleteLabel", label, "", "absent"))]]
       ELSE [err |-> "",
             R |-> [R EXCEPT
                      !.labels = cutLabel(@, label),
                      !.calls = Append(@, Call("DeleteLabel", label, "", "ok"))]]

\* Client.RegisterComment: a comment with the body and the time of the call is
\* appended to the comments of the pull request.
RegisterComment(R, body, user, in) ==
    IF ~in.comment
    THEN [err |-> ErrRemote,
          R |-> [R EXCEPT !.calls = Append(@, Call("RegisterComment", body, user, "err"))]]
    ELSE [err |-> "",
          R |-> [R EXCEPT !.comments = Append(@, Comment("", body, user, "", clock)),
                          !.calls = Append(@, Call("RegisterComment", body, user, "ok"))]]

\* -------------------------------------------------- approve plugin: steps

\* authorize without the check that the sender is not the author.
authorize_NoAuthorCheck(sender, author) ==
    LET w == CanUserWriteToRepo(sender)
    IN IF w.err # "" THEN [kind |-> "error", user |-> "", text |-> w.err]
       ELSE IF w.ok THEN [kind |-> "nil", user |-> "", text |-> ""]
       ELSE [kind |-> "Unauthorized", user |-> sender.Name, text |-> "unauthorized"]

\* authorize(cfg, sender, author, gitCli): nil, an UnauthorizedError naming the
\* sender, or the error of the privilege lookup.
authorize(sender, author) ==
    IF sender.ID = author.ID
    THEN [kind |-> "Unauthorized", user |-> sender.Name, text |-> "unauthorized"]
    ELSE LET w == CanUserWriteToRepo(sender)
         IN IF w.err # "" THEN [kind |-> "error", user |-> "", text |-> w.err]
            ELSE IF w.ok THEN [kind |-> "nil", user |-> "", text |-> ""]
            ELSE [kind |-> "Unauthorized", user |-> sender.Name, text |-> "unauthorized"]

\* The authorization step in the record of a handling.
Authorized(R, sender, auth) ==
    [R EXCEPT !.calls = Append(@, Call("authorize", "", sender.Name,
                                       IF auth.kind = "nil" THEN "ok" ELSE auth.kind))]

\* The comment templates: generateUserUnauthorizedComment, generateApprovedComment,
\* generateApproveCanceledComment, generateHelpComment.
generateUserUnauthorizedComment == "[APPROVE ALERT] User is not allowed to approve/cancel approve"
generateApprovedComment == "[APPROVE ALERT] User approved this pull request!"
generateApproveCanceledComment == "[APPROVE ALERT] User canceled the approval."
generateHelpComment == "[APPROVE ALERT] Approve comment is malformed"

\* strings.Contains(err.Error(), "Label does not exist")
IsLabelDoesNotExist(err) == err = ErrLabelDoesNotExist

\* handleApproveCommand with the confirmation posted before the label is set.
handleApproveCommand_CommentFirst(R, issueComment, in) ==
    LET c == RegisterComment(R, generateApprovedComment, issueComment.Author.Name, in)
    IN IF c.err # "" THEN c ELSE SetLabel(c.R, approvedLabel, in)

\* handleApproveCommand: set the approved label, then post the confirmation
\* naming the author of the comment.
handleApproveCommand(R, issueComment, in) ==
    LET l == SetLabel(R, approvedLabel, in)
    IN IF l.err # "" THEN l
       ELSE RegisterComment(l.R, generateApprovedComment, issueComment.Author.Name, in)

\* handleApproveCancelCommand that returns every error of the delete.
handleApproveCancelCommand_Strict(R, issueComment, in) ==
    LET l == DeleteLabel(R, approvedLabel, in)
    IN IF l.err # "" THEN l
       ELSE RegisterComment(l.R, generateApproveCanceledComment, issueComment.Author.Name, in)

\* handleApproveCancelCommand: delete the approved label, swallowing "Label does
\* not exist", then post the cancellation naming the author of the comment.
handleApproveCancelCommand(R, issueComment, in) ==
    LET l == DeleteLabel(R, approvedLabel, in)
    IN IF l.err # "" /\ ~IsLabelDoesNotExist(l.err) THEN l
       ELSE RegisterComment(l.R, generateApproveCanceledComment, issueComment.Author.Name, in)

\* chatops.ExtractCommands on the comment texts of the model: the commands of a
\* text, each a type and an argument list.
ExtractCommands(body) ==
    CASE body = "/approve" -> <<[Type |-> CommandTypeApprove, Args |-> <<>>]>>
      [] body = "/approve cancel" -> <<[Type |-> CommandTypeApprove, Args |-> <<"cancel">>]>>
      [] body = "/approve check" -> <<[Type |-> CommandTypeApprove, Args |-> <<"check">>]>>
      [] body = "/approve now please" ->
            <<[Type |-> CommandTypeApprove, Args |-> <<"now", "please">>]>>
      [] body = "/approve please" -> <<[Type |-> CommandTypeApprove, Args |-> <<"please">>]>>
      [] body = "/approve cancel now" ->
            <<[Type |-> CommandTypeApprove, Args |-> <<"cancel", "now">>]>>
      [] body = "/ci-approve" -> <<[Type |-> CommandTypeGitLabApprove, Args |-> <<>>]>>
      [] body = "/ci-approve cancel" ->
            <<[Type |-> CommandTypeGitLabApprove, Args |-> <<"cancel">>]>>
      [] body = "/ci-approve check" ->
            <<[Type |-> CommandTypeGitLabApprove, Args |-> <<"check">>]>>
      [] body = "/ci-approve please" ->
            <<[Type |-> CommandTypeGitLabApprove, Args |-> <<"please">>]>>
      [] OTHER -> <<>>

\* The loop over the commands of one comment in checkApproval: "approve",
\* "cancel" or "" when no command of the comment is decisive.
RECURSIVE commandVerdict(_)
commandVerdict(commands) ==
    IF commands = <<>> THEN ""
    ELSE LET command == Head(commands)
         IN IF command.Type = "approve" /\ Len(command.Args) = 0 THEN "approve"
            ELSE IF command.Type = "approve" /\ Len(command.Args) = 1
                    /\ command.Args[1] = "cancel" THEN "cancel"
            ELSE commandVerdict(Tail(commands))

\* checkApproval(comments): the verdict of the first decisive comment of the
\* list, false when there is none.
RECURSIVE checkApproval(_)
checkApproval(cs) ==
    IF cs = <<>> THEN FALSE
    ELSE LET comment == Head(cs)
         IN IF comment.review = PullRequestReviewStateApproved THEN TRUE
            ELSE IF comment.review = PullRequestReviewStateUnapproved THEN FALSE
            ELSE LET v == commandVerdict(ExtractCommands(comment.body))
                 IN IF v = "approve" THEN TRUE
                    ELSE IF v = "cancel" THEN FALSE
                    ELSE checkApproval(Tail(cs))

\* Insertion of a comment into a list that is sorted newest first, behind the
\* comments that are not older than it.
RECURSIVE insertNewestFirst(_, _)
insertNewestFirst(sorted, c) ==
    IF sorted = <<>> THEN <<c>>
    ELSE IF Head(sorted).at < c.at THEN <<c>> \o sorted
    ELSE <<Head(sorted)>> \o insertNewestFirst(Tail(sorted), c)

\* The comments left in the order in which the provider listed them.
sortNewestFirst_Unsorted(cs) == cs

\* sort.Slice(comments, CreatedAt descending): for the short lists of the model
\* the library sorts by insertion.
RECURSIVE sortNewestFirst(_)
sortNewestFirst(cs) ==
    IF cs = <<>> THEN <<>>
    ELSE insertNewestFirst(sortNewestFirst(SubSeq(cs, 1, Len(cs) - 1)), cs[Len(cs)])

\* syncApproval(label, comment, ...): approve when the comments say approved and
\* the label is missing, cancel when they say not approved and the label is set.
syncApproval(R, label, comment, issueComment, in) ==
    IF comment /\ ~label THEN handleApproveCommand(R, issueComment, in)
    ELSE IF ~comment /\ label THEN handleApproveCancelCommand(R, issueComment, in)
    ELSE [err |-> "", R |-> R]

\* handleApproveCheckCommand: list the labels and the comments, compute the
\* verdict of the comments newest first and sync the label with it.
handleApproveCheckCommand(R, issueComment, in) ==
    IF ~in.list
    THEN [err |-> ErrRemote,
          R |-> [R EXCEPT !.calls = Append(@, Call("ListLabels", "", "", "err"))]]
    ELSE LET R1 == [R EXCEPT !.calls = Append(Append(@, Call("ListLabels", "", "", "ok")),
                                              Call("ListComments", "", "", "ok"))]
             approveLabel == "approved" \in Range(R.labels)
             approvedComment == checkApproval(sortNewestFirst(R.comments))
         IN syncApproval(R1, approveLabel, approvedComment, issueComment, in)

\* rejectUnauthorized that also takes the approved label off the pull request.
rejectUnauthorized_Rollback(R, auth, in) ==
    RegisterComment([R EXCEPT !.labels = SelectSeq(@, LAMBDA l : l # approvedLabel)],
                    generateUserUnauthorizedComment, auth.user, in)

\* The rejection of an unauthorized user: the notice naming the user is posted.
rejectUnauthorized(R, auth, in) ==
    RegisterComment(R, generateUserUnauthorizedComment, auth.user, in)

\* handleLabelEvent that posts the notice and leaves the changed label as it is.
handleLabelEvent_NoRollback(R, wh, in) ==
    LET auth == authorize(wh.Sender, wh.PullRequest.Author)
        R1 == Authorized(R, wh.Sender, auth)
    IN IF approvedLabel \notin wh.LabelChanged THEN [err |-> "", R |-> R]
       ELSE IF auth.kind = "nil" THEN [err |-> "", R |-> R1]
       ELSE IF auth.kind # "Unauthorized" THEN [err |-> auth.text, R |-> R1]
       ELSE RegisterComment(R1, generateUserUnauthorizedComment, auth.user, in)

\* handleLabelEvent that answers every error of the authorization, the failed
\* privilege lookup included, with the rollback and the notice.
handleLabelEvent_RollbackOnError(R, wh, in) ==
    LET isApprovedLabeled == approvedLabel \in Range(wh.Labels)
        auth == authorize(wh.Sender, wh.PullRequest.Author)
        R1 == Authorized(R, wh.Sender, auth)
    IN IF approvedLabel \notin wh.LabelChanged THEN [err |-> "", R |-> R]
       ELSE IF auth.kind = "nil" THEN [err |-> "", R |-> R1]
       ELSE LET l == IF isApprovedLabeled
                     THEN DeleteLabel(R1, approvedLabel, in)
                     ELSE SetLabel(R1, approvedLabel, in)
            IN IF l.err # "" /\ ~(isApprovedLabeled /\ IsLabelDoesNotExist(l.err))
               THEN l
               ELSE rejectUnauthorized(l.R, [auth EXCEPT !.user = wh.Sender.Name], in)

\* handleLabelEvent that reads from the event's action whether the label was set.
handleLabelEvent_TrustAction(R, wh, in) ==
    LET isApprovedLabeled == wh.Action = PullRequestActionLabeled
        auth == authorize(wh.Sender, wh.PullRequest.Author)
        R1 == Authorized(R, wh.Sender, auth)
    IN IF approvedLabel \notin wh.LabelChanged THEN [err |-> "", R |-> R]
       ELSE IF auth.kind = "nil" THEN [err |-> "", R |-> R1]
       ELSE IF auth.kind # "Unauthorized" THEN [err |-> auth.text, R |-> R1]
       ELSE LET l == IF isApprovedLabeled
                     THEN DeleteLabel(R1, approvedLabel, in)
                     ELSE SetLabel(R1, approvedLabel, in)
            IN IF l.err # "" /\ ~(isApprovedLabeled /\ IsLabelDoesNotExist(l.err))
               THEN l
               ELSE rejectUnauthorized(l.R, auth, in)

\* handleLabelEvent: when the approved label is among the changed labels and the
\* sender is not authorized, the change is undone (delete when the PR carries the
\* label, set when it does not) and the notice is posted.
handleLabelEvent(R, wh, in) ==
    LET isApprovedChanged == approvedLabel \in wh.LabelChanged
        isApprovedLabeled == approvedLabel \in Range(wh.Labels)
    IN IF ~isApprovedChanged THEN [err |-> "", R |-> R]
       ELSE LET auth == authorize(wh.Sender, wh.PullRequest.Author)
                R1 == Authorized(R, wh.Sender, auth)
            IN IF auth.kind = "nil" THEN [err |-> "", R |-> R1]
               ELSE IF auth.kind # "Unauthorized" THEN [err |-> auth.text, R |-> R1]
               ELSE LET l == IF isApprovedLabeled
                             THEN DeleteLabel(R1, approvedLabel, in)
                             ELSE SetLabel(R1, approvedLabel, in)
                    IN IF l.err # "" /\ ~(isApprovedLabeled /\ IsLabelDoesNotExist(l.err))
                       THEN l
                       ELSE rejectUnauthorized(l.R, auth, in)

\* Handler.Handle(wh, ic): a raw webhook.  Review events of an open pull request
\* with a review state and labeled/unlabeled events are handled, all others and
\* configs without a token are skipped.
Handle(R, wh, in) ==
    IF in.ic = "notoken" THEN [err |-> "", R |-> R]
    ELSE LET isApproval == /\ wh.EventType = EventTypePullRequestReview
                           /\ wh.PullRequest.State = PullRequestStateOpen
                           /\ wh.ReviewState # ""
             isLabeled == /\ wh.EventType = EventTypePullRequest
                          /\ wh.Action \in {PullRequestActionLabeled, PullRequestActionUnlabeled}
         IN IF ~isApproval /\ ~isLabeled THEN [err |-> "", R |-> R]
            ELSE IF in.ic = "clierr" THEN [err |-> ErrGitCli, R |-> R]
            ELSE IF isLabeled THEN handleLabelEvent(R, wh, in)
            ELSE IF wh.ReviewState = PullRequestReviewStateApproved
            THEN handleApproveCommand(R, wh.IssueComment, in)
            ELSE IF wh.ReviewState = PullRequestReviewStateUnapproved
            THEN handleApproveCancelCommand(R, wh.IssueComment, in)
            ELSE [err |-> "", R |-> R]

\* A reading of the arguments that looks at the first one only.
isCancel_First(args) == Len(args) >= 1 /\ args[1] = "cancel"

\* len(command.Args) == 1 && command.Args[0] == "cancel", and the same for check
isCancel(args) == Len(args) = 1 /\ args[1] = "cancel"
isCheck(args) == Len(args) = 1 /\ args[1] = "check"

\* Handler.HandleChatOps(command, webhook, config): a comment command on an open
\* pull request: authorize the sender, then approve, cancel, check or help.
HandleChatOps(R, command, wh, in) ==
    IF wh.PullRequest.State # PullRequestStateOpen THEN [err |-> "", R |-> R]
    ELSE IF in.ic = "notoken" THEN [err |-> "", R |-> R]
    ELSE IF in.ic = "clierr" THEN [err |-> ErrGitCli, R |-> R]
    ELSE LET auth == authorize(wh.Sender, wh.PullRequest.Author)
             R1 == Authorized(R, wh.Sender, auth)
         IN IF auth.kind = "Unauthorized" THEN rejectUnauthorized(R1, auth, in)
            ELSE IF auth.kind # "nil" THEN [err |-> auth.text, R |-> R1]
            ELSE IF Len(command.Args) = 0
            THEN handleApproveCommand(R1, wh.IssueComment, in)
            ELSE IF isCancel(command.Args)
            THEN handleApproveCancelCommand(R1, wh.IssueComment, in)
            ELSE IF isCheck(command.Args)
            THEN handleApproveCheckCommand(R1, wh.IssueComment, in)
            ELSE RegisterComment(R1, generateHelpComment, "", in)

\* ------------------------------------------------ approve plugin: events

\* The texts of the comments users write.
CommentTexts ==
    {"/approve", "/approve cancel", "/approve check", "/approve now please",
     "/approve please", "/approve cancel now", "/ci-approve", "/ci-approve cancel"}

\* The webhook of an event on the pull request, as the normalizer hands it over.
Webhook(eventType, sender, action, reviewState, labelChanged, labels) ==
    [EventType |-> eventType, Sender |-> sender, Action |-> action,
     ReviewState |-> reviewState, LabelChanged |-> labelChanged, Labels |-> labels,
     PullRequest |-> [State |-> pullRequest.state, Author |-> pullRequest.author],
     IssueComment |-> [Author |-> sender]]

\* The chatops dispatcher: the approve handler is called for each command of the
\* comment whose type it registered, until one call fails.
RECURSIVE dispatchChatOps(_, _, _, _)
dispatchChatOps(R, commands, wh, in) ==
    IF commands = <<>> THEN [err |-> "", R |-> R]
    ELSE IF Head(commands).Type \notin {CommandTypeApprove, CommandTypeGitLabApprove}
    THEN dispatchChatOps(R, Tail(commands), wh, in)
    ELSE LET r == HandleChatOps(R, Head(commands), wh, in)
         IN IF r.err # "" THEN r ELSE dispatchChatOps(r.R, Tail(commands), wh, in)

\* A pull request as the plugin first sees it: open, written by a user with or
\* without write privilege, with or without the approved label (labels set while
\* the config had no token are not handled).
NoHandling == [kind |-> "", sender |-> Alice, arg |-> "", calls |-> <<>>, err |-> ""]

\* No handler call is under way beside the one an action describes.
NoHandlers == [h \in {} |-> ""]

\* No label event is on its way and no two handler calls run side by side; the
\* plugin's account is one with write privilege.
NoDelivery ==
    /\ engine = Bob
    /\ delivery = <<>>
    /\ labelBefore = FALSE
    /\ handlers = NoHandlers

ApproveInit ==
    /\ pullRequest \in {[author |-> a, state |-> PullRequestStateOpen, labels |-> l] :
                          a \in {Alice, Carol}, l \in {<<>>, <<approvedLabel>>}}
    /\ comments = <<>>
    /\ clock = 1
    /\ handled = NoHandling
    /\ nhandled = 0
    /\ NoDelivery

\* The plugin has handled an event: the remote state and the record of it.
Handled(kind, sender, arg, r) ==
    /\ pullRequest' = [pullRequest EXCEPT !.labels = r.R.labels]
    /\ comments' = r.R.comments
    /\ clock' = clock + 1
    /\ handled' = [kind |-> kind, sender |-> sender, arg |-> arg, calls |-> r.R.calls,
                   err |-> r.err]
    /\ nhandled' = nhandled + 1
    /\ UNCHANGED <<engine, delivery, labelBefore, handlers, jobVars, provVars, httpVars>>

\* The comment of user u with its commands handled by the plugin.
CommentHandled(u, body, in) ==
    LET R0 == [Remote EXCEPT !.comments = Append(@, Comment(u.Name, body, "", "", clock))]
        wh == Webhook(EventTypeIssueComment, u, "", "", {}, pullRequest.labels)
    IN Handled("chatops", u, body, dispatchChatOps(R0, ExtractCommands(body), wh, in))

\* User u writes a comment on the pull request; its commands reach the plugin.
PostComment(u, body, in) ==
    /\ nhandled < MaxEvents
    /\ CommentHandled(u, body, in)

\* The review of user u handled by the plugin.
ReviewHandled(u, reviewState, in) ==
    LET R0 == [Remote EXCEPT
                 !.comments = Append(@, Comment(u.Name, "", "", reviewState, clock))]
        wh == Webhook(EventTypePullRequestReview, u, "", reviewState, {},
                      pullRequest.labels)
    IN Handled("review", u, reviewState, Handle(R0, wh, in))

\* User u submits a review with a review state ("" is a plain review comment).
SubmitReview(u, reviewState, in) ==
    /\ nhandled < MaxEvents
    /\ ReviewHandled(u, reviewState, in)

\* The label change of user u handled by the plugin.
LabelChangeHandled(u, label, action, in) ==
    LET labels == IF label \in Range(pullRequest.labels)
                  THEN SelectSeq(pullRequest.labels, LAMBDA l : l # label)
                  ELSE Append(pullRequest.labels, label)
        R0 == [Remote EXCEPT !.labels = labels]
        wh == Webhook(EventTypePullRequest, u, action, "", {label}, labels)
    IN Handled("label", u, label, Handle(R0, wh, in))

\* User u puts a label on the pull request or takes it off; the event names the
\* changed label, the labels the pull request has now, and an action.
ChangeLabel(u, label, action, in) ==
    /\ nhandled < MaxEvents
    /\ LabelChangeHandled(u, label, action, in)

\* The pull request is closed.
ClosePullRequest ==
    /\ pullRequest.state = PullRequestStateOpen
    /\ pullRequest' = [pullRequest EXCEPT !.state = PullRequestStateClosed]
    /\ UNCHANGED <<comments, clock, handled, nhandled, engine, delivery, labelBefore,
                   handlers, jobVars, provVars, httpVars>>

ApproveNext ==
    \/ \E u \in Users, body \in CommentTexts, in \in HandleInputs : PostComment(u, body, in)
    \/ \E u \in Users, in \in HandleInputs,
          reviewState \in {PullRequestReviewStateApproved, PullRequestReviewStateUnapproved, ""} :
            SubmitReview(u, reviewState, in)
    \/ \E u \in Users, label \in {approvedLabel, OtherLabel}, in \in HandleInputs,
          action \in {PullRequestActionLabeled, PullRequestActionUnlabeled} :
            ChangeLabel(u, label, action, in)
    \/ ClosePullRequest

\* ------------------------------------------ approve plugin: the two spellings

\* The most comments on a pull request before the command.
MaxAlias == 2

\* A pull request whose history holds decisive commands in both spellings; a
\* command in either spelling is then handled.
AliasTexts ==
    {"/approve", "/approve cancel", "/approve check", "/approve please",
     "/ci-approve", "/ci-approve cancel", "/ci-approve check", "/ci-approve please"}
AliasHistories ==
    UNION {{[i \in 1..n |-> Comment("bob", f[i], "", "", i)] :
               f \in [1..n -> {"/approve", "/approve cancel",
                               "/ci-approve", "/ci-approve cancel"}]} :
              n \in 0..MaxAlias}

AliasInit ==
    /\ pullRequest \in {[author |-> Alice, state |-> PullRequestStateOpen, labels |-> l] :
                          l \in {<<>>, <<approvedLabel>>}}
    /\ comments \in AliasHistories
    /\ clock = MaxAlias + 1
    /\ handled = NoHandling
    /\ nhandled = 0
    /\ NoDelivery

AliasNext ==
    \E u \in Users, body \in AliasTexts, in \in HandleInputs : PostComment(u, body, in)

\* ------------------------------------------------ approve plugin: sessions

\* The most handlings in a session.
MaxSession == 3

\* A session: users who know the commands work on the pull request, the remote
\* server takes every label call, a comment post may fail, and a handling that
\* failed is delivered again.
SessionUsers == {Alice, Bob}
SessionTexts == {"/approve", "/approve cancel", "/approve check"}
SessionInputs == {in \in HandleInputs : in.ic = "ok" /\ in.label = "ok" /\ in.list}

SessionComment(u, body, in) ==
    /\ nhandled < MaxSession
    /\ CommentHandled(u, body, in)

SessionReview(u, reviewState, in) ==
    /\ nhandled < MaxSession
    /\ ReviewHandled(u, reviewState, in)

SessionLabel(u, in) ==
    /\ nhandled < MaxSession
    /\ LabelChangeHandled(u, approvedLabel,
                          IF approvedLabel \in Range(pullRequest.labels)
                          THEN PullRequestActionUnlabeled ELSE PullRequestActionLabeled, in)

\* The surrounding loop delivers the command or the review whose handling
\* returned an error once more: the handler runs again on the same event.
Redeliver(in) ==
    /\ nhandled < MaxSession
    /\ handled.err # ""
    /\ handled.kind \in {"chatops", "review"}
    /\ IF handled.kind = "chatops"
       THEN LET wh == Webhook(EventTypeIssueComment, handled.sender, "", "", {},
                              pullRequest.labels)
            IN Handled("chatops", handled.sender, handled.arg,
                       dispatchChatOps(Remote, ExtractCommands(handled.arg), wh, in))
       ELSE LET wh == Webhook(EventTypePullRequestReview, handled.sender, "", handled.arg, {},
                              pullRequest.labels)
            IN Handled("review", handled.sender, handled.arg, Handle(Remote, wh, in))

SessionNext ==
    \/ \E u \in SessionUsers, body \in SessionTexts, in \in SessionInputs :
          SessionComment(u, body, in)
    \/ \E u \in SessionUsers, in \in SessionInputs,
          reviewState \in {PullRequestReviewStateApproved, PullRequestReviewStateUnapproved} :
            SessionReview(u, reviewState, in)
    \/ \E u \in SessionUsers, in \in SessionInputs : SessionLabel(u, in)
    \/ \E in \in SessionInputs : Redeliver(in)

\* ------------------------------------- approve plugin: the plugin's own events

\* The most label events handled in one chain.
MaxChain == 4

\* The remote server answers every call of the plugin.
ChainInputs ==
    {in \in HandleInputs : in.ic = "ok" /\ in.label # "err" /\ in.comment /\ in.list}

\* The label event the provider sends when the sender changed the approved label:
\* the changed label, the labels the pull request has after the change, an action.
LabelEvent(sender, labels) ==
    [Sender |-> sender, LabelChanged |-> {approvedLabel}, Labels |-> labels,
     Action |-> IF approvedLabel \in Range(labels) THEN PullRequestActionLabeled
                ELSE PullRequestActionUnlabeled]

\* The approved label on or off the label list, the other way round.
toggled(labels) ==
    IF approvedLabel \in Range(labels) THEN SelectSeq(labels, LAMBDA l : l # approvedLabel)
    ELSE Append(labels, approvedLabel)

\* A user puts the approved label on the pull request or takes it off; the
\* provider sends the label event of the change.
UserChangesLabel(u) ==
    /\ handled.kind = "" /\ delivery = <<>>
    /\ pullRequest' = [pullRequest EXCEPT !.labels = toggled(@)]
    /\ delivery' = <<LabelEvent(u, toggled(pullRequest.labels))>>
    /\ labelBefore' = (approvedLabel \in Range(pullRequest.labels))
    /\ UNCHANGED <<comments, clock, handled, nhandled, engine, handlers,
                   jobVars, provVars, httpVars>>

\* The plugin handles the oldest label event on its way.  A label call of the
\* handler that changed the labels is a label change made by the plugin's account:
\* the provider sends its label event like any other.
DeliverLabelEvent(in) ==
    /\ delivery # <<>>
    /\ nhandled < MaxChain
    /\ LET ev == Head(delivery)
           wh == Webhook(EventTypePullRequest, ev.Sender, ev.Action, "", ev.LabelChanged,
                         ev.Labels)
           r == Handle(Remote, wh, in)
       IN /\ pullRequest' = [pullRequest EXCEPT !.labels = r.R.labels]
          /\ comments' = r.R.comments
          /\ handled' = [kind |-> "label", sender |-> ev.Sender, arg |-> approvedLabel,
                         calls |-> r.R.calls, err |-> r.err]
          /\ delivery' = Tail(delivery) \o
                            (IF r.R.labels # pullRequest.labels
                             THEN <<LabelEvent(engine, r.R.labels)>> ELSE <<>>)
    /\ clock' = clock + 1
    /\ nhandled' = nhandled + 1
    /\ UNCHANGED <<engine, labelBefore, handlers, jobVars, provVars, httpVars>>

\* An open pull request, and the plugin working with the token of any account:
\* one with write privilege, the author, one without privilege, an unknown one.
ChainInit ==
    /\ pullRequest \in {[author |-> a, state |-> PullRequestStateOpen, labels |-> l] :
                          a \in {Alice, Carol}, l \in {<<>>, <<approvedLabel>>}}
    /\ comments = <<>>
    /\ clock = 1
    /\ handled = NoHandling
    /\ nhandled = 0
    /\ engine \in Users
    /\ delivery = <<>>
    /\ labelBefore = FALSE
    /\ handlers = NoHandlers

ChainNext ==
    \/ \E u \in Users : UserChangesLabel(u)
    \/ \E in \in ChainInputs : DeliverLabelEvent(in)

\* ----------------------------------- approve plugin: two handlers at a time

\* The user whose approval and cancellation are handled at the same time.
Approver == Bob
Canceller == Bob

\* The outcomes of the remote calls of a handler under way.
RaceInputs == {in \in HandleInputs : in.ic = "ok" /\ in.list}

\* A handler call at its start.
AtStart == [pc |-> "start", err |-> ""]

\* The first call of handleApproveCommand under way: SetLabel.  An error ends the
\* handler.
ApproveSetLabel(in) ==
    /\ handlers["approve"].pc = "start"
    /\ LET l == SetLabel(Remote, approvedLabel, in)
       IN /\ pullRequest' = [pullRequest EXCEPT !.labels = l.R.labels]
          /\ handlers' = [handlers EXCEPT !["approve"] =
                            IF l.err # "" THEN [pc |-> "returned", err |-> l.err]
                            ELSE [pc |-> "comment", err |-> ""]]
    /\ UNCHANGED <<comments, clock, handled, nhandled, engine, delivery, labelBefore,
                   jobVars, provVars, httpVars>>

\* Its second call: the confirmation naming the approver is posted.
ApproveRegisterComment(in) ==
    /\ handlers["approve"].pc = "comment"
    /\ LET c == RegisterComment(Remote, generateApprovedComment, Approver.Name, in)
       IN /\ comments' = c.R.comments
          /\ handlers' = [handlers EXCEPT !["approve"] = [pc |-> "returned", err |-> c.err]]
    /\ clock' = clock + 1
    /\ UNCHANGED <<pullRequest, handled, nhandled, engine, delivery, labelBefore,
                   jobVars, provVars, httpVars>>

\* The first call of handleApproveCancelCommand under way: DeleteLabel.  "Label
\* does not exist" is swallowed, any other error ends the handler.
CancelDeleteLabel(in) ==
    /\ handlers["cancel"].pc = "start"
    /\ LET l == DeleteLabel(Remote, approvedLabel, in)
       IN /\ pullRequest' = [pullRequest EXCEPT !.labels = l.R.labels]
          /\ handlers' = [handlers EXCEPT !["cancel"] =
                            IF l.err # "" /\ ~IsLabelDoesNotExist(l.err)
                            THEN [pc |-> "returned", err |-> l.err]
                            ELSE [pc |-> "comment", err |-> ""]]
    /\ UNCHANGED <<comments, clock, handled, nhandled, engine, delivery, labelBefore,
                   jobVars, provVars, httpVars>>

\* Its second call: the cancellation naming the canceller is posted.
CancelRegisterComment(in) ==
    /\ handlers["cancel"].pc = "comment"
    /\ LET c == RegisterComment(Remote, generateApproveCanceledComment, Canceller.Name, in)
       IN /\ comments' = c.R.comments
          /\ handlers' = [handlers EXCEPT !["cancel"] = [pc |-> "returned", err |-> c.err]]
    /\ clock' = clock + 1
    /\ UNCHANGED <<pullRequest, handled, nhandled, engine, delivery, labelBefore,
                   jobVars, provVars, httpVars>>

\* An open pull request with or without the label and with or without an older
\* confirmation; an approval and a cancellation have reached their handlers.
RaceInit ==
    /\ pullRequest \in {[author |-> Alice, state |-> PullRequestStateOpen, labels |-> l] :
                          l \in {<<>>, <<approvedLabel>>}}
    /\ comments \in {<<>>, <<Comment("", generateApprovedComment, "bob", "", 1)>>,
                     <<Comment("", generateApproveCanceledComment, "bob", "", 1)>>}
    /\ clock = 2
    /\ handled = NoHandling
    /\ nhandled = 0
    /\ engine = Bob
    /\ delivery = <<>>
    /\ labelBefore = FALSE
    /\ handlers = [h \in {"approve", "cancel"} |-> AtStart]

RaceNext ==
    \/ \E in \in RaceInputs : ApproveSetLabel(in)
    \/ \E in \in RaceInputs : ApproveRegisterComment(in)
    \/ \E in \in RaceInputs : CancelDeleteLabel(in)
    \/ \E in \in RaceInputs : CancelRegisterComment(in)

\* ---------------------------------------------- approve plugin: the verdict

\* The most comments in a listed history.
MaxHistory == 3

\* The comments of a history: commands and reviews of a user, with their time.
HistoryComments ==
    {Comment("bob", body, "", "", at) :
        body \in {"/approve", "/approve cancel", "/approve check"}, at \in 1..MaxHistory}
    \cup {Comment("bob", "", "", review, at) :
             review \in {PullRequestReviewStateApproved, PullRequestReviewStateUnapproved},
             at \in 1..MaxHistory}

\* The lists ListComments may return: any comments in any order.
Histories == UNION {[1..n -> HistoryComments] : n \in 0..MaxHistory}

\* The verdict of handleApproveCheckCommand over the listed comments: sort them
\* newest first, then checkApproval.
VerdictOfComments ==
    /\ result.op = ""
    /\ result' = [op |-> "checkApproval", repo |-> "", arg |-> <<>>, err |-> "",
                  out |-> checkApproval(sortNewestFirst(comments)), panic |-> FALSE]
    /\ UNCHANGED <<jobVars, apprVars, Repos, gitfakeUsers, Branches, ncalls, httpVars>>

HistoryInit ==
    /\ pullRequest = [author |-> Alice, state |-> PullRequestStateOpen, labels |-> <<>>]
    /\ comments \in Histories
    /\ clock = MaxHistory + 1
    /\ handled = NoHandling
    /\ nhandled = 0
    /\ NoDelivery

\* ------------------------------------------------ in-memory provider: store

\* The most calls made on the provider in one behaviour.
MaxCalls == 2

\* The repositories the config of a client names; only the first is in the store.
TestRepo == "test-repo"
Repositories == {"test-repo", "test-repo2"}
\* The pull requests and webhooks calls name; pull request 2 does not exist.
PullRequestIDs == {1, 2, 3}
WebhookIDs == {1, 2}
WebhookURLs == {"http://hook", "http://test-rate-limit"}
MergeMessages == {"", "merged"}

\* Error texts of the in-memory provider.
ErrReposNil == "repos not initialized"
ErrNoSuchRepository == "404 no such repository"
ErrNoSuchPR == "404 no such PR"
ErrNoSuchPr == "404 no such pr"
ErrNoSuchRef == "404 no such ref"
ErrRateLimit == "unixtime::T. Rate limit exceeded, code 403. Please increase the limit or wait until reset"
ErrNil(field) == field \o " not initialized"
ErrNoSuchBranch(branch) == "404 no such branch (" \o branch \o ")"
\* The users and branches calls name; alice and main are in the store.
UserNames == {"alice", "erin"}
BranchNames == {"main", "gone"}

\* Go maps: the value under key k, or the zero value; insertion; deletion.
Put(m, k, v) == [x \in DOMAIN m \cup {k} |-> IF x = k THEN v ELSE m[x]]
Del(m, k) == [x \in DOMAIN m \ {k} |-> m[x]]
AtOrNil(m, k) == IF k \in DOMAIN m THEN m[k] ELSE <<>>

\* A Repo of the store.  Nil names the maps of the Repo that were never made; such
\* a map reads as empty.
NewRepo(nil, labels) ==
    [Nil |-> nil,
     Webhooks |-> <<>>,
     PullRequests |-> IF "PullRequests" \in nil THEN <<>>
                      ELSE (1 :> [ID |-> 1, Title |-> "fix", State |-> PullRequestStateOpen,
                                  Mergeable |-> TRUE, Labels |-> labels,
                                  Head |-> "sha-1", Base |-> "main"]) @@
                           (3 :> [ID |-> 3, Title |-> "feat", State |-> PullRequestStateOpen,
                                  Mergeable |-> TRUE, Labels |-> <<>>,
                                  Head |-> "sha-3", Base |-> "dev"]),
     PullRequestDiffs |-> IF "PullRequestDiffs" \in nil THEN <<>> ELSE 1 :> "diff-1",
     PullRequestCommits |-> IF "PullRequestCommits" \in nil THEN <<>>
                            ELSE (1 :> <<"sha-1">>) @@ (3 :> <<"sha-3">>),
     Commits |-> IF "Commits" \in nil THEN <<>>
                 ELSE "dev" :> <<[SHA |-> "sha-0", Message |-> "init"]>>,
     CommitStatuses |-> IF "CommitStatuses" \in nil THEN <<>> ELSE "sha-1" :> <<>>,
     Comments |-> <<>>]

\* The maps of a Repo a test leaves out when it only needs webhooks.
OnlyWebhooks ==
    {"UserCanWrite", "PullRequests", "PullRequestDiffs", "PullRequestCommits", "Commits",
     "CommitStatuses", "Comments"}

\* What a call returns: its error, its value, whether it panicked, and the
\* repositories of the store after it.
Fail(err) == [err |-> err, out |-> <<>>, panic |-> FALSE, at |-> Repos.at]
Ok(out, at) == [err |-> "", out |-> out, panic |-> FALSE, at |-> at]
Panic == [err |-> "", out |-> <<>>, panic |-> TRUE, at |-> Repos.at]

\* Lookup with another text for the missing repository.
Lookup_NotFound(repo) ==
    IF Repos.nil THEN ErrReposNil
    ELSE IF repo \notin DOMAIN Repos.at THEN "404 not found"
    ELSE ""

\* The head of every operation on a repository: Repos == nil, then the lookup of
\* c.IntegrationConfig.Spec.Git.Repository in Repos.
Lookup(repo) ==
    IF Repos.nil THEN ErrReposNil
    ELSE IF repo \notin DOMAIN Repos.at THEN ErrNoSuchRepository
    ELSE ""

\* The store with the Repo of the call changed in one field.
WithRepo(repo, r) == Put(Repos.at, repo, r)

\* A call on the provider was made: the store and the record of the call.
Called(op, repo, arg, r) ==
    /\ Repos' = [Repos EXCEPT !.at = r.at]
    /\ result' = [op |-> op, repo |-> repo, arg |-> arg, err |-> r.err, out |-> r.out,
                  panic |-> r.panic]
    /\ ncalls' = ncalls + 1
    /\ UNCHANGED <<gitfakeUsers, Branches, jobVars, apprVars, httpVars>>

\* ------------------------------------------- in-memory provider: operations

IsRateLimitURL(url) == url = "http://test-rate-limit"

\* Client.ListWebhook
ClientListWebhook(repo) ==
    /\ ncalls < MaxCalls
    /\ Called("ListWebhook", repo, <<>>,
        LET e == Lookup(repo)
        IN IF e # "" THEN Fail(e)
           ELSE LET hooks == Repos.at[repo].Webhooks
                IN IF \E id \in DOMAIN hooks : IsRateLimitURL(hooks[id])
                   THEN Fail(ErrRateLimit)
                   ELSE Ok({[ID |-> id, URL |-> hooks[id]] : id \in DOMAIN hooks}, Repos.at))

\* Client.RegisterWebhook; id is the outcome of rand.Intn
ClientRegisterWebhook(repo, url, id) ==
    /\ ncalls < MaxCalls
    /\ Called("RegisterWebhook", repo, <<url>>,
        LET e == Lookup(repo)
        IN IF e # "" THEN Fail(e)
           ELSE LET r == Repos.at[repo]
                IN IF "Webhooks" \in r.Nil THEN Fail(ErrNil("webhooks"))
                   ELSE IF IsRateLimitURL(url) THEN Fail(ErrRateLimit)
                   ELSE Ok(<<>>, WithRepo(repo, [r EXCEPT !.Webhooks = Put(@, id, url)])))

\* Client.DeleteWebhook
ClientDeleteWebhook(repo, id) ==
    /\ ncalls < MaxCalls
    /\ Called("DeleteWebhook", repo, <<id>>,
        LET e == Lookup(repo)
        IN IF e # "" THEN Fail(e)
           ELSE LET r == Repos.at[repo]
                IN Ok(<<>>, WithRepo(repo, [r EXCEPT !.Webhooks = Del(@, id)])))

\* Client.ListCommitStatuses
ClientListCommitStatuses(repo, ref) ==
    /\ ncalls < MaxCalls
    /\ Called("ListCommitStatuses", repo, <<ref>>,
        LET e == Lookup(repo)
        IN IF e # "" THEN Fail(e)
           ELSE LET r == Repos.at[repo]
                IN IF "CommitStatuses" \in r.Nil THEN Fail(ErrNil("commit statuses"))
                   ELSE IF ref \notin DOMAIN r.CommitStatuses THEN Fail(ErrNoSuchRef)
                   ELSE Ok(r.CommitStatuses[ref], Repos.at))

\* Client.SetCommitStatus
ClientSetCommitStatus(repo, sha, status) ==
    /\ ncalls < MaxCalls
    /\ Called("SetCommitStatus", repo, <<sha, status>>,
        LET e == Lookup(repo)
        IN IF e # "" THEN Fail(e)
           ELSE LET r == Repos.at[repo]
                IN IF "CommitStatuses" \in r.Nil THEN Fail(ErrNil("commit statuses"))
                   ELSE Ok(<<>>, WithRepo(repo,
                              [r EXCEPT !.CommitStatuses =
                                  Put(@, sha, Append(AtOrNil(@, sha), status))])))

\* Client.CanUserWriteToRepo
ClientCanUserWriteToRepo(repo, user) ==
    /\ ncalls < MaxCalls
    /\ Called("CanUserWriteToRepo", repo, <<user.Name>>,
        LET e == Lookup(repo)
        IN IF e # "" THEN Fail(e)
           ELSE IF "UserCanWrite" \in Repos.at[repo].Nil THEN Fail(ErrNil("userCanWrite"))
           ELSE LET w == CanUserWriteToRepo(user)
                IN IF w.err # "" THEN Fail(w.err) ELSE Ok(w.ok, Repos.at))

\* Client.RegisterComment; the time of the call stamps the comment
ClientRegisterComment(repo, issueNo, body) ==
    /\ ncalls < MaxCalls
    /\ Called("RegisterComment", repo, <<issueNo, body>>,
        LET e == Lookup(repo)
        IN IF e # "" THEN Fail(e)
           ELSE LET r == Repos.at[repo]
                IN IF "Comments" \in r.Nil THEN Fail(ErrNil("comments"))
                   ELSE Ok(<<>>, WithRepo(repo,
                              [r EXCEPT !.Comments =
                                  Put(@, issueNo, Append(AtOrNil(@, issueNo),
                                          [Body |-> body, CreatedAt |-> ncalls,
                                           PullRequest |-> issueNo]))])))

\* Client.ListComments
ClientListComments(repo, issueNo) ==
    /\ ncalls < MaxCalls
    /\ Called("ListComments", repo, <<issueNo>>,
        LET e == Lookup(repo)
        IN IF e # "" THEN Fail(e)
           ELSE Ok(AtOrNil(Repos.at[repo].Comments, issueNo), Repos.at))

\* Client.ListPullRequests
ClientListPullRequests(repo) ==
    /\ ncalls < MaxCalls
    /\ Called("ListPullRequests", repo, <<>>,
        LET e == Lookup(repo)
        IN IF e # "" THEN Fail(e)
           ELSE LET prs == Repos.at[repo].PullRequests
                IN Ok({prs[id] : id \in DOMAIN prs}, Repos.at))

\* Client.GetPullRequest
ClientGetPullRequest(repo, id) ==
    /\ ncalls < MaxCalls
    /\ Called("GetPullRequest", repo, <<id>>,
        LET e == Lookup(repo)
        IN IF e # "" THEN Fail(e)
           ELSE LET r == Repos.at[repo]
                IN IF "PullRequests" \in r.Nil THEN Fail(ErrNil("pull requests"))
                   ELSE IF id \notin DOMAIN r.PullRequests THEN Fail(ErrNoSuchPr)
                   ELSE Ok(r.PullRequests[id], Repos.at))

\* The commit of a merge that keeps the empty message.
mergeCommit_KeepEmpty(pr, message) == [SHA |-> pr.Head, Message |-> message]

\* fmt.Sprintf("%s(#%d)", pr.Title, pr.ID)
defaultMergeMessage(pr) == pr.Title \o "(#" \o ToString(pr.ID) \o ")"

\* commit := git.Commit{SHA: pr.Head.Sha, Message: message}, with the default
\* message in place of the empty one
mergeCommit(pr, message) ==
    [SHA |-> pr.Head,
     Message |-> IF message = "" THEN defaultMergeMessage(pr) ELSE message]

\* Client.MergePullRequest; the write into a Commits map that was never made panics
ClientMergePullRequest(repo, id, message) ==
    /\ ncalls < MaxCalls
    /\ Called("MergePullRequest", repo, <<id, message>>,
        LET e == Lookup(repo)
        IN IF e # "" THEN Fail(e)
           ELSE LET r == Repos.at[repo]
                IN IF id \notin DOMAIN r.PullRequests THEN Fail(ErrNoSuchPr)
                   ELSE LET pr == r.PullRequests[id]
                            closed == [r EXCEPT !.PullRequests[id].Mergeable = FALSE,
                                                !.PullRequests[id].State = PullRequestStateClosed]
                            commit == mergeCommit(pr, message)
                        IN IF "Commits" \in r.Nil
                           THEN [Panic EXCEPT !.at = WithRepo(repo, closed)]
                           ELSE Ok(<<>>, WithRepo(repo,
                                      [closed EXCEPT !.Commits =
                                          Put(@, pr.Base, Append(AtOrNil(@, pr.Base), commit))])))

\* Client.GetPullRequestDiff
ClientGetPullRequestDiff(repo, id) ==
    /\ ncalls < MaxCalls
    /\ Called("GetPullRequestDiff", repo, <<id>>,
        LET e == Lookup(repo)
        IN IF e # "" THEN Fail(e)
           ELSE LET r == Repos.at[repo]
                IN IF "PullRequestDiffs" \in r.Nil THEN Fail(ErrNil("pull request diffs"))
                   ELSE IF id \notin DOMAIN r.PullRequestDiffs THEN Fail(ErrNoSuchPr)
                   ELSE Ok(r.PullRequestDiffs[id], Repos.at))

\* Client.ListPullRequestCommits
ClientListPullRequestCommits(repo, id) ==
    /\ ncalls < MaxCalls
    /\ Called("ListPullRequestCommits", repo, <<id>>,
        LET e == Lookup(repo)
        IN IF e # "" THEN Fail(e)
           ELSE LET r == Repos.at[repo]
                IN IF "PullRequestCommits" \in r.Nil THEN Fail(ErrNil("pull request commits"))
                   ELSE IF id \notin DOMAIN r.PullRequestCommits THEN Fail(ErrNoSuchPr)
                   ELSE Ok(r.PullRequestCommits[id], Repos.at))

\* Client.ListLabels; repo.PullRequests[id] of a missing id is a nil pointer, and
\* reading its Labels panics
ClientListLabels(repo, id) ==
    /\ ncalls < MaxCalls
    /\ Called("ListLabels", repo, <<id>>,
        LET e == Lookup(repo)
        IN IF e # "" THEN Fail(e)
           ELSE LET r == Repos.at[repo]
                IN IF id \notin DOMAIN r.PullRequests THEN Panic
                   ELSE Ok(r.PullRequests[id].Labels, Repos.at))

\* Client.SetLabel
ClientSetLabel(repo, id, label) ==
    /\ ncalls < MaxCalls
    /\ Called("SetLabel", repo, <<id, label>>,
        LET e == Lookup(repo)
        IN IF e # "" THEN Fail(e)
           ELSE LET r == Repos.at[repo]
                IN IF "PullRequests" \in r.Nil THEN Fail(ErrNil("pull requests"))
                   ELSE IF id \notin DOMAIN r.PullRequests THEN Fail(ErrNoSuchPR)
                   ELSE Ok(<<>>, WithRepo(repo,
                              [r EXCEPT !.PullRequests[id].Labels = appendLabel(@, label)])))

\* Client.DeleteLabel, DeleteLabel(repoName, id, label)
ClientDeleteLabel(repo, id, label) ==
    /\ ncalls < MaxCalls
    /\ Called("DeleteLabel", repo, <<id, label>>,
        LET e == Lookup(repo)
        IN IF e # "" THEN Fail(e)
           ELSE LET r == Repos.at[repo]
                IN IF "PullRequests" \in r.Nil THEN Fail(ErrNil("pull requests"))
                   ELSE IF id \notin DOMAIN r.PullRequests THEN Fail(ErrNoSuchPR)
                   ELSE Ok(<<>>, WithRepo(repo,
                              [r EXCEPT !.PullRequests[id].Labels = cutLabel(@, label)])))

\* Client.GetUserInfo; Users is one map for all repositories, the repository of
\* the client's config is not looked at
ClientGetUserInfo(userName) ==
    /\ ncalls < MaxCalls
    /\ Called("GetUserInfo", "", <<userName>>,
        IF gitfakeUsers.nil THEN Fail(ErrNil("users"))
        ELSE IF userName \notin DOMAIN gitfakeUsers.at THEN Fail(ErrNoSuchUser)
        ELSE Ok(gitfakeUsers.at[userName], Repos.at))

\* Client.GetBranch; Branches is one map for all repositories, the repository of
\* the client's config is not looked at
ClientGetBranch(branch) ==
    /\ ncalls < MaxCalls
    /\ Called("GetBranch", "", <<branch>>,
        IF Branches.nil THEN Fail(ErrNil("branches"))
        ELSE IF branch \notin DOMAIN Branches.at THEN Fail(ErrNoSuchBranch(branch))
        ELSE Ok(Branches.at[branch], Repos.at))

\* The store as a test sets it up: not made at all, or with the test repository,
\* whose pull request carries no label twice.
NoResult == [op |-> "", repo |-> "", arg |-> <<>>, err |-> "", out |-> <<>>, panic |-> FALSE]

ProvInit ==
    /\ Repos \in {[nil |-> TRUE, at |-> <<>>]} \cup
                 {[nil |-> FALSE, at |-> TestRepo :> NewRepo(nil, labels)] :
                     nil \in {{}, OnlyWebhooks},
                     labels \in {<<>>, <<approvedLabel>>, <<OtherLabel, approvedLabel>>}}
    /\ gitfakeUsers \in {[nil |-> TRUE, at |-> <<>>],
                         [nil |-> FALSE, at |-> "alice" :> [ID |-> 1, Name |-> "alice"]]}
    /\ Branches \in {[nil |-> TRUE, at |-> <<>>],
                     [nil |-> FALSE, at |-> "main" :> [Name |-> "main", Sha |-> "sha-0"]]}
    /\ result = NoResult
    /\ ncalls = 0

ProvIdle ==
    /\ Repos = [nil |-> TRUE, at |-> <<>>]
    /\ gitfakeUsers = [nil |-> TRUE, at |-> <<>>]
    /\ Branches = [nil |-> TRUE, at |-> <<>>]
    /\ result = NoResult
    /\ ncalls = 0

ProvNext ==
    \/ \E repo \in Repositories : ClientListWebhook(repo)
    \/ \E repo \in Repositories, url \in WebhookURLs, id \in WebhookIDs :
          ClientRegisterWebhook(repo, url, id)
    \/ \E repo \in Repositories, id \in WebhookIDs : ClientDeleteWebhook(repo, id)
    \/ \E repo \in Repositories, ref \in {"sha-1", "sha-2"} : ClientListCommitStatuses(repo, ref)
    \/ \E repo \in Repositories, sha \in {"sha-1", "sha-2"} :
          ClientSetCommitStatus(repo, sha, "success")
    \/ \E repo \in Repositories, user \in Users : ClientCanUserWriteToRepo(repo, user)
    \/ \E repo \in Repositories, id \in PullRequestIDs :
          ClientRegisterComment(repo, id, "/approve")
    \/ \E repo \in Repositories, id \in PullRequestIDs : ClientListComments(repo, id)
    \/ \E repo \in Repositories : ClientListPullRequests(repo)
    \/ \E repo \in Repositories, id \in PullRequestIDs : ClientGetPullRequest(repo, id)
    \/ \E repo \in Repositories, id \in PullRequestIDs, message \in MergeMessages :
          ClientMergePullRequest(repo, id, message)
    \/ \E repo \in Repositories, id \in PullRequestIDs : ClientGetPullRequestDiff(repo, id)
    \/ \E repo \in Repositories, id \in PullRequestIDs : ClientListPullRequestCommits(repo, id)
    \/ \E repo \in Repositories, id \in PullRequestIDs : ClientListLabels(repo, id)
    \/ \E repo \in Repositories, id \in PullRequestIDs, label \in {approvedLabel, OtherLabel} :
          ClientSetLabel(repo, id, label)
    \/ \E repo \in Repositories, id \in PullRequestIDs, label \in {approvedLabel, OtherLabel} :
          ClientDeleteLabel(repo, id, label)
    \/ \E userName \in UserNames : ClientGetUserInfo(userName)
    \/ \E branch \in BranchNames : ClientGetBranch(branch)

\* ------------------------------------------------- package git: paged listing

\* The most pages a listing has.
MaxPages == 3

\* The URLs a caller asks for: without a query, with one, and one url.Parse rejects.
ApiURLs ==
    {[valid |-> TRUE, Path |-> "/pulls", RawQuery |-> ""],
     [valid |-> TRUE, Path |-> "/pulls", RawQuery |-> "state=open"],
     [valid |-> FALSE, Path |-> "", RawQuery |-> ""]}

ErrParse == "parse: invalid URL"
ErrTransport == "dial tcp: connection refused"
ErrStatus == "error requesting api [GET], code 500"
ErrUnmarshal == "invalid character in JSON"

\* u.RawQuery after the per_page parameter was added, and u.String()
withPerPage(u) ==
    [u EXCEPT !.RawQuery = IF @ = "" THEN "per_page=100" ELSE @ \o "&per_page=100"]
String(u) == u.Path \o "?" \o u.RawQuery

\* The server: the URL it names as next after page k, the page a URL stands for,
\* the items of a page, and the Link header of a page.  The last page comes
\* without a Link header or with one that has no "next" relation.
NextURL(k) == "/pulls?cursor=" \o ToString(k + 1)
PageOf(uri) ==
    IF \E k \in 1..MaxPages + 1 : uri = NextURL(k)
    THEN 1 + CHOOSE k \in 1..MaxPages + 1 : uri = NextURL(k)
    ELSE 1
Items(k) == <<"item-" \o ToString(k)>>
LinkHeader(k) ==
    IF k < server.pages
    THEN (IF k > 1 THEN <<[URL |-> NextURL(k - 2), Rel |-> "prev"]>> ELSE <<>>) \o
         <<[URL |-> NextURL(k), Rel |-> "next"],
           [URL |-> NextURL(server.pages - 1), Rel |-> "last"]>>
    ELSE IF server.lastLink = "none" THEN <<>>
    ELSE <<[URL |-> NextURL(k - 2), Rel |-> "prev"], [URL |-> NextURL(0), Rel |-> "first"]>>

\* RequestHTTP(http.MethodGet, uri, header, nil, tlsConfig): body, header, error.
\* A status outside 200..299 gives the body and the header together with an error.
RequestHTTP(uri) ==
    LET k == PageOf(uri)
        fails == server.failAt = k
    IN IF fails /\ server.failKind = "transport"
       THEN [data |-> [json |-> FALSE, items |-> <<>>], Link |-> <<>>, err |-> ErrTransport]
       ELSE [data |-> [json |-> ~(fails /\ server.failKind = "body"), items |-> Items(k)],
             Link |-> LinkHeader(k),
             err |-> IF fails /\ server.failKind = "status" THEN ErrStatus ELSE ""]

\* ParseLinkHeader(h.Get("Link")): nil for a header without links; links.Find(rel):
\* the first link of the relation, or nil
ParseLinkHeader(header) == header
Find(links, rel) ==
    IF \E i \in 1..Len(links) : links[i].Rel = rel
    THEN <<links[CHOOSE i \in 1..Len(links) :
                    /\ links[i].Rel = rel
                    /\ \A j \in 1..i - 1 : links[j].Rel # rel]>>
    ELSE <<>>

\* A loop that takes every response for the last one.
hasNext_Never(header) == FALSE

\* links != nil and links.Find("next") != nil: the loop goes on
hasNext(header) ==
    LET links == ParseLinkHeader(header)
    IN links # <<>> /\ Find(links, "next") # <<>>

NoCall == [pc |-> "idle", apiURL |-> [valid |-> FALSE, Path |-> "", RawQuery |-> ""],
           uri |-> "", requests |-> <<>>, made |-> 0, accumulated |-> <<>>, err |-> ""]

\* GetPaginatedRequest up to the loop: the URL is parsed and given its per_page
\* parameter.
GetPaginatedRequest(apiURL) ==
    /\ call.pc = "idle"
    /\ call' = IF ~apiURL.valid
               THEN [call EXCEPT !.pc = "done", !.apiURL = apiURL, !.err = ErrParse]
               ELSE [call EXCEPT !.pc = "loop", !.apiURL = apiURL,
                                 !.uri = String(withPerPage(apiURL))]
    /\ UNCHANGED <<server, errIn, now, jobVars, apprVars, provVars>>

\* A round of the loop that hands the object to the callback before it looks at
\* the error of the decoding.
RequestPage_AccumulateFirst ==
    /\ call.pc = "loop"
    /\ LET r == RequestHTTP(call.uri)
           tmpObj == call.made + 1
           sent == [call EXCEPT !.requests = Append(@, call.uri)]
           got == [sent EXCEPT !.made = tmpObj,
                               !.accumulated =
                                   Append(@, [obj |-> tmpObj, items |-> r.data.items])]
       IN call' =
            IF r.err # "" THEN [sent EXCEPT !.pc = "done", !.err = r.err]
            ELSE IF ~r.data.json THEN [got EXCEPT !.pc = "done", !.err = ErrUnmarshal]
            ELSE IF hasNext(r.Link)
            THEN [got EXCEPT !.uri = Find(ParseLinkHeader(r.Link), "next")[1].URL]
            ELSE [got EXCEPT !.pc = "done"]
    /\ UNCHANGED <<server, errIn, now, jobVars, apprVars, provVars>>

\* One round of the loop: the request, a new object, the body read into it, the
\* callback, and the look at the Link header.
RequestPage ==
    /\ call.pc = "loop"
    /\ LET r == RequestHTTP(call.uri)
           tmpObj == call.made + 1
           sent == [call EXCEPT !.requests = Append(@, call.uri)]
       IN call' =
            IF r.err # "" THEN [sent EXCEPT !.pc = "done", !.err = r.err]
            ELSE IF ~r.data.json
            THEN [sent EXCEPT !.pc = "done", !.made = tmpObj, !.err = ErrUnmarshal]
            ELSE LET got == [sent EXCEPT !.made = tmpObj,
                                         !.accumulated =
                                             Append(@, [obj |-> tmpObj, items |-> r.data.items])]
                 IN IF hasNext(r.Link)
                    THEN [got EXCEPT !.uri = Find(ParseLinkHeader(r.Link), "next")[1].URL]
                    ELSE [got EXCEPT !.pc = "done"]
    /\ UNCHANGED <<server, errIn, now, jobVars, apprVars, provVars>>

Servers ==
    {sv \in [pages : 1..MaxPages, lastLink : {"none", "prev"}, failAt : 0..MaxPages,
             failKind : {"transport", "status", "body"}] :
        /\ sv.failAt <= sv.pages
        /\ sv.failAt = 0 => sv.failKind = "transport"}

PagesInit ==
    /\ server \in Servers
    /\ call = NoCall

PagesIdle ==
    /\ server = [pages |-> 1, lastLink |-> "none", failAt |-> 0, failKind |-> "transport"]
    /\ call = NoCall

PagesNext ==
    \/ \E apiURL \in ApiURLs : GetPaginatedRequest(apiURL)
    \/ RequestPage

\* ---------------------------------------------- package git: rate limit errors

\* The latest time on the clock.
MaxNow == 2

\* Texts are sequences of characters; a run of letters and blanks that holds no
\* digit, colon, dot or sign may stand as one entry.
RateLimitExceeded == <<"Rate limit exceeded">>
Digits == <<"0", "1", "2", "3", "4", "5", "6", "7", "8", "9">>

\* strconv.FormatInt(n, 10)
RECURSIVE FormatInt(_)
FormatInt(n) ==
    IF n < 0 THEN <<"-">> \o FormatInt(0 - n)
    ELSE IF n < 10 THEN <<Digits[n + 1]>>
    ELSE FormatInt(n \div 10) \o <<Digits[(n % 10) + 1]>>

\* strings.Index: the first place where sub starts in s, 0 when there is none
Index(s, sub) ==
    LET at == {i \in 1..(Len(s) - Len(sub) + 1) : SubSeq(s, i, i + Len(sub) - 1) = sub}
    IN IF at = {} THEN 0 ELSE CHOOSE i \in at : \A j \in at : i <= j

\* strings.Contains
Contains(s, sub) == Index(s, sub) # 0

\* strings.Split: the pieces of s between the occurrences of sep
RECURSIVE Split(_, _)
Split(s, sep) ==
    LET i == Index(s, sep)
    IN IF i = 0 THEN <<s>>
       ELSE <<SubSeq(s, 1, i - 1)>> \o Split(SubSeq(s, i + Len(sep), Len(s)), sep)

\* The value of a run of digits.
RECURSIVE DigitsValue(_)
DigitsValue(s) ==
    IF s = <<>> THEN 0
    ELSE 10 * DigitsValue(SubSeq(s, 1, Len(s) - 1)) +
         (CHOOSE d \in 0..9 : Digits[d + 1] = s[Len(s)])

\* strconv.Atoi: an optional sign and at least one digit, nothing else
Atoi(s) ==
    LET signed == s # <<>> /\ s[1] \in {"+", "-"}
        body == IF signed THEN Tail(s) ELSE s
        isNumber == body # <<>> /\ \A i \in 1..Len(body) : body[i] \in Range(Digits)
    IN IF ~isNumber THEN [ok |-> FALSE, value |-> 0]
       ELSE [ok |-> TRUE,
             value |-> IF signed /\ s[1] = "-" THEN 0 - DigitsValue(body)
                       ELSE DigitsValue(body)]

\* A reader of the reset time that takes the first piece of the text.
unixTimeOf_FirstPiece(strErr) == [panic |-> FALSE, text |-> Split(strErr, <<":", ":">>)[1]]

\* strings.Split(strings.Split(strErr, "::")[1], ".")[0]; the index 1 of a text
\* without "::" is out of range
unixTimeOf(strErr) ==
    LET pieces == Split(strErr, <<":", ":">>)
    IN IF Len(pieces) < 2 THEN [panic |-> TRUE, text |-> <<>>]
       ELSE [panic |-> FALSE, text |-> Split(pieces[2], <<".">>)[1]]

\* CheckRateLimitGetResetTime(err)
CheckRateLimitGetResetTime(err) ==
    IF ~err.nil /\ Contains(err.text, RateLimitExceeded)
    THEN LET unixTime == unixTimeOf(err.text)
             tm == Atoi(unixTime.text)
         IN IF unixTime.panic THEN [out |-> 0, panic |-> TRUE]
            ELSE IF tm.ok THEN [out |-> tm.value, panic |-> FALSE]
            ELSE [out |-> 0, panic |-> FALSE]
    ELSE [out |-> 0, panic |-> FALSE]

\* GetGapTime(target): int64(target) - time.Now().Unix()
GetGapTime(target) == target - now

\* An error value: nil or its text, with the way it was made: by the convention
\* with an epoch, or otherwise.
Error(text, made, epoch) == [nil |-> FALSE, text |-> text, made |-> made, epoch |-> epoch]
NilError == [nil |-> TRUE, text |-> <<>>, made |-> "nil", epoch |-> 0]

\* fmt.Errorf("unixtime::%s. Rate limit exceeded, code 403. Please increase the
\* limit or wait until reset", strconv.FormatInt(time.Now().Unix()+100, 10))
fakeRateLimitError(t) ==
    Error(<<"unixtime", ":", ":">> \o FormatInt(t + 100) \o <<".", " ">> \o
          RateLimitExceeded \o
          <<",", " code ", "4", "0", "3", ".", " Please increase the limit or wait until reset">>,
          "fake", t + 100)

\* The reset times and the words in front of them that errors of the convention
\* carry, and what follows the reset time.
Epochs == {0, 7, 42, 1730000000}
Sentinels == {<<"unixtime">>, <<"reset at">>, <<>>}
RateLimitTails ==
    {<<" ">> \o RateLimitExceeded,
     RateLimitExceeded \o <<",", " see ", ":", ":", "1", ".", "5">>}

ConventionErrors ==
    {Error(s \o <<":", ":">> \o FormatInt(e) \o <<".">> \o tail, "convention", e) :
        s \in Sentinels, e \in Epochs, tail \in RateLimitTails}

\* Errors that do not follow the convention.
OtherErrors ==
    {Error(text, "other", 0) :
        text \in {<<"404 no such repository">>,
                  <<"unixtime", ":", ":", "4", "2", ".", " limit reached">>,
                  RateLimitExceeded,
                  <<"error requesting api ", ":", "/", "/", "host, code ", "4", "0", "3",
                    ", msg ">> \o RateLimitExceeded,
                  <<"unixtime", ":", "4", "2", ".", " ">> \o RateLimitExceeded,
                  <<"unixtime", ":", ":", "soon", ".", " ">> \o RateLimitExceeded,
                  <<"unixtime", ":", ":", ".", " ">> \o RateLimitExceeded,
                  <<"unixtime", ":", ":", "4", "2", "s", ".", " ">> \o RateLimitExceeded}}

\* The reset times a gap is asked for.
Targets == Epochs \cup {t + 100 : t \in 0..MaxNow}

\* The reconciler reads the reset time of the error it got.
ReadResetTime ==
    /\ ncalls < MaxCalls
    /\ LET r == CheckRateLimitGetResetTime(errIn)
       IN result' = [op |-> "CheckRateLimitGetResetTime", repo |-> "", arg |-> <<>>,
                     err |-> "", out |-> r.out, panic |-> r.panic]
    /\ ncalls' = ncalls + 1
    /\ UNCHANGED <<Repos, gitfakeUsers, Branches, server, call, errIn, now, jobVars, apprVars>>

\* The gap to a reset time is computed.
ReadGapTime(target) ==
    /\ ncalls < MaxCalls
    /\ result' = [op |-> "GetGapTime", repo |-> "", arg |-> <<target, now>>,
                  err |-> "", out |-> GetGapTime(target), panic |-> FALSE]
    /\ ncalls' = ncalls + 1
    /\ UNCHANGED <<Repos, gitfakeUsers, Branches, server, call, errIn, now, jobVars, apprVars>>

\* Time passes.
Tick ==
    /\ now < MaxNow
    /\ now' = now + 1
    /\ UNCHANGED <<server, call, errIn, jobVars, apprVars, provVars>>

RateInit ==
    /\ now = 0
    /\ errIn \in {NilError, fakeRateLimitError(now)} \cup ConventionErrors \cup OtherErrors

RateNext ==
    \/ ReadResetTime
    \/ \E target \in Targets : ReadGapTime(target)
    \/ Tick

RateIdle ==
    /\ errIn = NilError
    /\ now = 0

HttpIdle == PagesIdle /\ RateIdle

\* ------------------------------------------------------- specifications

ApproveIdle ==
    /\ pullRequest = [author |-> Alice, state |-> PullRequestStateOpen, labels |-> <<>>]
    /\ comments = <<>>
    /\ clock = 1
    /\ handled = NoHandling
    /\ nhandled = 0
    /\ NoDelivery

JobIdle ==
    /\ jobs = [j \in JobNames |-> NewJob]
    /\ pass = NoPass
    /\ npass = 0
    /\ slots = {}
    /\ released = [j \in JobNames |-> 0]
    /\ removed = [j \in JobNames |-> 0]
    /\ delNotified = [j \in JobNames |-> 0]
    /\ delReleased = [j \in JobNames |-> 0]
    /\ running = [j \in JobNames |-> NoRun]
    /\ alone = [j \in JobNames |-> NewJob]

\* The job reconciler.
Init == JobInit /\ ApproveIdle /\ ProvIdle /\ HttpIdle

Next == JobNext

Spec == Init /\ [][Next]_vars

\* The approve plugin.
InitApprove == JobIdle /\ ApproveInit /\ ProvIdle /\ HttpIdle

NextApprove == ApproveNext

SpecApprove == InitApprove /\ [][NextApprove]_vars

\* A session on a pull request.
InitSession == JobIdle /\ ApproveInit /\ ProvIdle /\ HttpIdle

NextSession == SessionNext

SpecSession == InitSession /\ [][NextSession]_vars

\* The verdict over a listed history.
InitVerdict == JobIdle /\ HistoryInit /\ ProvIdle /\ HttpIdle

NextVerdict == VerdictOfComments

SpecVerdict == InitVerdict /\ [][NextVerdict]_vars

\* The in-memory provider.
InitProvider == JobIdle /\ ApproveIdle /\ ProvInit /\ HttpIdle

NextProvider == ProvNext

SpecProvider == InitProvider /\ [][NextProvider]_vars

\* Passes of two jobs at the same time.
InitConcurrent == ConcurrentInit /\ ApproveIdle /\ ProvIdle /\ HttpIdle

NextConcurrent == ConcurrentNext

SpecConcurrent == InitConcurrent /\ [][NextConcurrent]_vars

\* Commands in the two spellings.
InitAlias == JobIdle /\ AliasInit /\ ProvIdle /\ HttpIdle

NextAlias == AliasNext

SpecAlias == InitAlias /\ [][NextAlias]_vars

\* The label events of a change of the approved label; every event the provider
\* sent is handled in the end.
InitRollback == JobIdle /\ ChainInit /\ ProvIdle /\ HttpIdle

NextRollback == ChainNext

SpecRollback ==
    InitRollback /\ [][NextRollback]_vars /\ WF_vars(\E in \in ChainInputs : DeliverLabelEvent(in))

\* An approval and a cancellation of one pull request handled at the same time.
InitRace == JobIdle /\ RaceInit /\ ProvIdle /\ HttpIdle

NextRace == RaceNext

SpecRace == InitRace /\ [][NextRace]_vars

\* A paged listing; a call that has started goes on until it returns.
InitPages == JobIdle /\ ApproveIdle /\ ProvIdle /\ PagesInit /\ RateIdle

NextPages == PagesNext

SpecPages == InitPages /\ [][NextPages]_vars /\ WF_vars(RequestPage)

\* The reading of rate limit errors.
InitRate == JobIdle /\ ApproveIdle /\ ProvIdle /\ PagesIdle /\ RateInit

NextRate == RateNext

SpecRate == InitRate /\ [][NextRate]_vars

\* ---------------------------------------------------------------- claims

\* A step that is a reconcile pass of job j.
PassStep(j) == npass' = npass + 1 /\ pass'.job = j

\* The pass of this step read the job from the store.
GotJob == pass'.events[1] = Ev("Get", "", "ok")

Has(evs, e) == e \in Range(evs)
HasFin(job) == finalizer \in Range(job.finalizers)
CountOp(evs, op) == Len(SelectSeq(evs, LAMBDA e : e.op = op))
LastEv(evs) == evs[Len(evs)]

EvGet == Ev("Get", "", "ok")
EvNotifyDeletion == Ev("Notify", "deletion", "ok")
EvNotifyDeferred == Ev("Notify", "deferred", "ok")

\* C1, the pass: a pass over a job that is not being deleted and lacks the job
\* finalizer requests one persist of the list with the finalizer appended, calls
\* neither ReflectStatus nor the scheduler and fetches nothing; when the store
\* takes the persist the stored list is the old list plus exactly one
\* job-finalizer entry, the status is unchanged and the pass exits with nil.
C1_Step(j) ==
    (PassStep(j) /\ jobs[j].exists /\ ~jobs[j].deleting /\ ~HasFin(jobs[j]) /\ GotJob) =>
        /\ Len(pass'.events) >= 2
        /\ pass'.events[2].op = "Patch" /\ pass'.events[2].arg = "add"
        /\ CountOp(pass'.events, "Patch") = 1
        /\ CountOp(pass'.events, "ReflectStatus") = 0
        /\ CountOp(pass'.events, "Notify") = 0
        /\ CountOp(pass'.events, "GetConfig") = 0
        /\ CountOp(pass'.events, "GetRun") = 0
        /\ slots' = slots /\ released' = released
        /\ pass'.events[2].res = "ok" =>
              /\ jobs'[j].finalizers = Append(jobs[j].finalizers, finalizer)
              /\ Count(jobs'[j].finalizers, finalizer) = 1
              /\ jobs'[j].status = jobs[j].status
              /\ pass'.events = <<EvGet, Ev("Patch", "add", "ok")>>
              /\ pass'.err = ""

\* C1, every state: the job finalizer occurs at most once in a finalizer list.
C1_AtMostOnce == \A j \in JobNames : Count(jobs[j].finalizers, finalizer) <= 1

\* C1: for a job that is not being deleted and lacks the job finalizer, one pass
\* appends exactly one job-finalizer entry, persists it and exits without status
\* work, ReflectStatus or a scheduler notification; the finalizer list never
\* holds the job finalizer twice.
C1_FinalizerAdded == [](C1_AtMostOnce) /\ [][\A j \in JobNames : C1_Step(j)]_vars

\* C1 witness: the last pass added the finalizer to a job that is not being deleted.
C1_Witness ==
    /\ pass.job \in JobNames
    /\ pass.events = <<EvGet, Ev("Patch", "add", "ok")>>
    /\ ~jobs[pass.job].deleting
    /\ Count(jobs[pass.job].finalizers, finalizer) = 1

C2_Step(j) ==
    (PassStep(j) /\ jobs[j].exists /\ jobs[j].deleting /\ HasFin(jobs[j]) /\ GotJob) =>
        /\ Len(pass'.events) >= 3
        /\ pass'.events[2] = EvNotifyDeletion
        /\ pass'.events[3].op = "Patch" /\ pass'.events[3].arg = "remove"
        /\ CountOp(pass'.events, "Notify") = 1
        /\ delNotified'[j] = delNotified[j] + 1
        /\ pass'.events[3].res = "ok" =>
              /\ pass'.events = <<EvGet, EvNotifyDeletion, Ev("Patch", "remove", "ok")>>
              /\ ~HasFin(jobs'[j])
              /\ Range(jobs'[j].finalizers) = Range(jobs[j].finalizers) \ {finalizer}
              /\ removed'[j] = removed[j] + 1
              /\ jobs'[j].status = jobs[j].status
              /\ pass'.err = ""

\* C2: for a job with a deletion timestamp and the job finalizer, one pass whose
\* persist succeeds notifies the scheduler exactly once, removes the finalizer,
\* persists and exits without status work.
C2_FinalizerRemoved == [][\A j \in JobNames : C2_Step(j)]_vars

\* C2 witness: the last pass removed the finalizer of a job that is being deleted.
C2_Witness ==
    /\ pass.job \in JobNames
    /\ pass.events = <<EvGet, EvNotifyDeletion, Ev("Patch", "remove", "ok")>>
    /\ jobs[pass.job].deleting
    /\ ~HasFin(jobs[pass.job])
    /\ delNotified[pass.job] = 1

C3_Step(j) ==
    /\ (PassStep(j) /\ Has(pass'.events, EvNotifyDeletion)) => HasFin(jobs[j])
    /\ removed'[j] <= 1
    /\ (removed[j] >= 1 /\ jobs[j].deleting) => ~HasFin(jobs'[j])
    /\ (PassStep(j) /\ jobs[j].exists /\ jobs[j].deleting /\ ~HasFin(jobs[j]) /\ GotJob) =>
          /\ CountOp(pass'.events, "Patch") = 0
          /\ jobs'[j].finalizers = jobs[j].finalizers

\* C3: the deletion-time notification happens only in a pass where the job
\* finalizer is present, the job finalizer is removed exactly once, and once it
\* is removed from a job that is being deleted it is never added again: a pass
\* that finds a deletion timestamp and no job finalizer adds no finalizer.
C3_RemovedOnceNeverReadded == [][\A j \in JobNames : C3_Step(j)]_vars

\* C4: once the status carries a CompletionTime no reconcile pass changes a
\* status field of the job, on any path of Reconcile.
C4_TerminalStatusImmutable ==
    [][\A j \in JobNames :
         jobs[j].status.completed => jobs'[j].status = jobs[j].status]_vars

\* C5, the pass: the pass that follows a deletion pass whose persist failed is a
\* deletion pass again (it notifies the scheduler and requests the removal).
C5_Step(j) ==
    (PassStep(j) /\ pass.job = j /\ Has(pass.events, Ev("Patch", "remove", "err")) /\ GotJob) =>
        /\ Len(pass'.events) >= 3
        /\ pass'.events[2] = EvNotifyDeletion
        /\ pass'.events[3].op = "Patch" /\ pass'.events[3].arg = "remove"

\* C5, every state: the deletion passes of a job, taken together, release its slot
\* at most once.
C5_NoDoubleRelease == \A j \in JobNames : delReleased[j] <= 1

\* C5: when the persist that removes the finalizer fails after the scheduler was
\* notified, the next reconcile of the job runs the deletion pass again, and over
\* all deletion passes the slot of the job is not released twice.
C5_DeletionRetried == [](C5_NoDoubleRelease) /\ [][\A j \in JobNames : C5_Step(j)]_vars

\* C5 witness: the scheduler was notified of the deletion twice, because the first
\* removal was not persisted, the second removal was, and the slot the job held
\* was released once.
C5_Witness ==
    \E j \in JobNames :
        /\ delNotified[j] = 2 /\ removed[j] = 1 /\ delReleased[j] = 1
        /\ ~jobs[j].status.completed
        /\ pass.job = j /\ Has(pass.events, Ev("Patch", "remove", "ok"))

C6_Step(j) ==
    (PassStep(j) /\ jobs[j].exists /\ GotJob /\ HasFin(jobs[j]) /\ ~jobs[j].deleting
       /\ ~jobs[j].status.completed) =>
        /\ CountOp(pass'.events, "Notify") = 1
        /\ LastEv(pass'.events) = EvNotifyDeferred
        /\ pass'.events[2].op = "GetConfig"
        /\ \/ Has(pass'.events, Ev("GetConfig", "", "err"))
           \/ Has(pass'.events, Ev("GetRun", "", "err"))
           \/ \E pr \in RunResults \cup {"nil"} : Has(pass'.events, Ev("ReflectStatus", pr, "err"))
           \/ Has(pass'.events, Ev("StatusPatch", "status", "err"))
           \/ Has(pass'.events, Ev("StatusPatch", "status", "ok"))

\* C6: every pass that finalizer handling does not exit and whose job is not
\* terminal calls scheduler.Notify exactly once, as its last call, on each exit
\* path: config fetch error, run fetch error, reflection error, persist error,
\* success.
C6_DeferredNotify == [][\A j \in JobNames : C6_Step(j)]_vars

\* C6 witness: a pass that ended with a run fetch error notified the scheduler last.
C6_Witness ==
    /\ pass.job \in JobNames
    /\ Has(pass.events, Ev("GetRun", "", "err"))
    /\ CountOp(pass.events, "Notify") = 1
    /\ LastEv(pass.events) = EvNotifyDeferred

\* The pass of this step ended, after its first n calls, with the patch to Failed
\* and the deferred notification; the stored status is Failed with the message.
FailedAfter(j, n, message) ==
    /\ Len(pass'.events) = n + 2
    /\ pass'.events[n + 1].op = "StatusPatch" /\ pass'.events[n + 1].arg = "failed"
    /\ pass'.events[n + 2] = EvNotifyDeferred
    /\ CountOp(pass'.events, "StatusPatch") = 1
    /\ pass'.err = ""
    /\ pass'.events[n + 1].res = "ok" =>
          /\ jobs'[j].status.state = IntegrationJobStateFailed
          /\ jobs'[j].status.message = message
    /\ pass'.events[n + 1].res = "err" => jobs'[j] = jobs[j]

C7_Step(j) ==
    PassStep(j) =>
        /\ Has(pass'.events, Ev("GetConfig", "", "err")) =>
              /\ FailedAfter(j, 2, ErrConfig)
              /\ CountOp(pass'.events, "GetRun") = 0
              /\ CountOp(pass'.events, "ReflectStatus") = 0
        /\ Has(pass'.events, Ev("GetRun", "", "err")) =>
              /\ FailedAfter(j, 3, ErrRun)
              /\ CountOp(pass'.events, "ReflectStatus") = 0
        /\ \A pr \in RunResults \cup {"nil"} :
              Has(pass'.events, Ev("ReflectStatus", pr, "err")) =>
                  /\ FailedAfter(j, 4, ErrReflect)
                  /\ CountOp(pass'.events, "ReflectStatus") = 1

\* C7: when the config fetch fails, the run fetch fails with an error that is not
\* NotFound, or ReflectStatus fails, the pass patches the status to Failed with
\* the text of the error as message, does none of the later steps and returns nil.
C7_ForcedFailed == [][\A j \in JobNames : C7_Step(j)]_vars

\* C7 witness: a failed run fetch left the job Failed with the text of that error.
C7_Witness ==
    /\ pass.job \in JobNames
    /\ Has(pass.events, Ev("GetRun", "", "err"))
    /\ Has(pass.events, Ev("StatusPatch", "failed", "ok"))
    /\ jobs[pass.job].status.state = IntegrationJobStateFailed
    /\ jobs[pass.job].status.message = ErrRun
    /\ pass.err = ""

C8_Step(j) ==
    (PassStep(j) /\ Has(pass'.events, Ev("StatusPatch", "status", "err"))) =>
        /\ pass'.err = ErrStatusPatch
        /\ CountOp(pass'.events, "StatusPatch") = 1
        /\ jobs'[j] = jobs[j]

\* C8: when the status persist that ends a successful pass fails, Reconcile
\* returns that error and the job is not patched to Failed.
C8_PersistErrorReturned == [][\A j \in JobNames : C8_Step(j)]_vars

\* C8 witness: the last pass returned the error of its final status persist.
C8_Witness ==
    /\ pass.job \in JobNames
    /\ Has(pass.events, Ev("StatusPatch", "status", "err"))
    /\ pass.err = ErrStatusPatch
    /\ jobs[pass.job].status.state # IntegrationJobStateFailed

\* The authorization steps of the last handling.
AuthorizeCalls == SelectSeq(handled.calls, LAMBDA c : c.op = "authorize")

\* C9: authorize fails with Unauthorized whenever the sender is the author of the
\* pull request, whatever the sender's write privilege; for another sender it
\* succeeds with write privilege and fails with Unauthorized without.
C9_Authorize ==
    \A i \in 1..Len(AuthorizeCalls) :
        LET sender == handled.sender
            author == pullRequest.author
            res == AuthorizeCalls[i].res
        IN /\ sender.ID = author.ID => res = "Unauthorized"
           /\ (sender.ID # author.ID /\ sender.Name \in DOMAIN UserCanWrite
                 /\ UserCanWrite[sender.Name]) => res = "ok"
           /\ (sender.ID # author.ID /\ sender.Name \in DOMAIN UserCanWrite
                 /\ ~UserCanWrite[sender.Name]) => res = "Unauthorized"

\* C9 witness: an author who has write privilege was refused.
C9_Witness ==
    /\ Len(AuthorizeCalls) = 1
    /\ handled.sender = pullRequest.author
    /\ UserCanWrite[handled.sender.Name]
    /\ AuthorizeCalls[1].res = "Unauthorized"

\* C10: every set or delete of the approved label in a handling follows a
\* successful authorization of the acting user in that handling; only the
\* rollback of a label event follows a failed one.
C10_MutationsAuthorized ==
    \A i \in 1..Len(handled.calls) :
        (handled.calls[i].op \in {"SetLabel", "DeleteLabel"} /\ handled.calls[i].res = "ok") =>
            \/ \E k \in 1..(i - 1) :
                  handled.calls[k] = Call("authorize", "", handled.sender.Name, "ok")
            \/ /\ handled.kind = "label"
               /\ \E k \in 1..(i - 1) :
                     handled.calls[k] = Call("authorize", "", handled.sender.Name, "Unauthorized")

\* The step records a handling of this kind, sender and argument.
Recorded(kind, u, arg) ==
    /\ nhandled' = nhandled + 1
    /\ handled'.kind = kind /\ handled'.sender = u /\ handled'.arg = arg

\* The sender may approve: not the author of the pull request, and known to the
\* repository with write privilege.
MayApprove(u) ==
    /\ u.ID # pullRequest.author.ID
    /\ u.Name \in DOMAIN UserCanWrite /\ UserCanWrite[u.Name]

\* The sender may not approve: the author, or a user without write privilege.
MayNotApprove(u) ==
    \/ u.ID = pullRequest.author.ID
    \/ u.Name \in DOMAIN UserCanWrite /\ ~UserCanWrite[u.Name]

\* The handlings in which the config has a token and a client, and the remote
\* server answers every call.
OkInputs == {in \in HandleInputs : in.ic = "ok" /\ in.label # "err" /\ in.comment /\ in.list}

HasLabel(labels) == approvedLabel \in Range(labels)

\* The notices of the plugin among the comments.
Notices(cs) == SelectSeq(cs, LAMBDA c : c.author = "")

\* C11, the handling: an /approve of a user who may approve makes three calls in
\* this order: the authorization, the set of the approved label, the post of the
\* confirmation naming the user; it returns no error, the label is on the pull
\* request and the confirmation is the one notice added to the comments.
C11_Step(u, in) ==
    (pullRequest.state = PullRequestStateOpen /\ MayApprove(u)
       /\ Recorded("chatops", u, "/approve") /\ PostComment(u, "/approve", in)) =>
        /\ handled'.err = ""
        /\ handled'.calls = <<Call("authorize", "", u.Name, "ok"),
                              Call("SetLabel", approvedLabel, "", "ok"),
                              Call("RegisterComment", generateApprovedComment, u.Name, "ok")>>
        /\ HasLabel(pullRequest'.labels)
        /\ Len(Notices(comments')) = Len(Notices(comments)) + 1
        /\ LET c == comments'[Len(comments')]
           IN c.body = generateApprovedComment /\ c.user = u.Name

\* C11: for an open pull request and a sender who is not its author and has write
\* privilege, /approve without arguments sets the approved label, then posts
\* exactly one confirmation naming the approver, and returns no error.
C11_ApproveSetsLabelThenComments ==
    [][\A u \in Users, in \in OkInputs : C11_Step(u, in)]_vars

\* C11 witness: bob approved the pull request of alice, which had no label: the
\* label is set and the confirmation naming bob is the newest comment.
C11_Witness ==
    /\ handled.kind = "chatops" /\ handled.sender = Bob /\ handled.err = ""
    /\ pullRequest.author = Alice
    /\ pullRequest.labels = <<approvedLabel>>
    /\ Len(handled.calls) = 3 /\ handled.calls[2].op = "SetLabel"
    /\ comments[Len(comments)].body = generateApprovedComment
    /\ comments[Len(comments)].user = "bob"

\* The texts whose command the approve handler is called for.
ApproveTexts == {body \in CommentTexts : ExtractCommands(body) # <<>>}

\* C12, the handling: an approve command of a user who may not approve leaves the
\* labels of the pull request as they are, makes the authorization and the post
\* of the notice naming the user and no other call, and returns no error.
C12_Step(u, body, in) ==
    (pullRequest.state = PullRequestStateOpen /\ MayNotApprove(u)
       /\ Recorded("chatops", u, body) /\ PostComment(u, body, in)) =>
        /\ handled'.err = ""
        /\ pullRequest'.labels = pullRequest.labels
        /\ handled'.calls = <<Call("authorize", "", u.Name, "Unauthorized"),
                              Call("RegisterComment", generateUserUnauthorizedComment,
                                   u.Name, "ok")>>
        /\ Len(Notices(comments')) = Len(Notices(comments)) + 1
        /\ LET c == comments'[Len(comments')]
           IN c.body = generateUserUnauthorizedComment /\ c.user = u.Name

\* C12: an approve command with any argument list (none, cancel, check,
\* malformed) sent by the author of the pull request or by a user without write
\* privilege leaves the label set unchanged, posts exactly one unauthorized
\* notice naming that user, and returns no error.
C12_UnauthorizedNoMutation ==
    [][\A u \in Users, body \in ApproveTexts, in \in OkInputs : C12_Step(u, body, in)]_vars

\* C12 witness: carol, who has no write privilege, sent /approve cancel on the
\* labelled pull request of alice: the label is still there and carol was told.
C12_Witness ==
    /\ handled.kind = "chatops" /\ handled.sender = Carol /\ handled.err = ""
    /\ pullRequest.author = Alice
    /\ pullRequest.labels = <<approvedLabel>>
    /\ comments[Len(comments) - 1].body = "/approve cancel"
    /\ comments[Len(comments)].body = generateUserUnauthorizedComment
    /\ comments[Len(comments)].user = "carol"

\* C13, the handling of a change of the approved label by a user who may not
\* approve: after the authorization failed the plugin deletes the label when the
\* pull request now carries it and sets it when it now lacks it, then posts the
\* notice; afterwards the label is present exactly when it was before the change.
C13_StepRefused(u, action, in) ==
    (MayNotApprove(u) /\ Recorded("label", u, approvedLabel)
       /\ ChangeLabel(u, approvedLabel, action, in)) =>
        /\ handled'.err = ""
        /\ handled'.calls =
              <<Call("authorize", "", u.Name, "Unauthorized"),
                Call(IF HasLabel(pullRequest.labels) THEN "SetLabel" ELSE "DeleteLabel",
                     approvedLabel, "", "ok"),
                Call("RegisterComment", generateUserUnauthorizedComment, u.Name, "ok")>>
        /\ HasLabel(pullRequest'.labels) <=> HasLabel(pullRequest.labels)
        /\ Len(Notices(comments')) = Len(Notices(comments)) + 1

\* C13, the handling of a change of the approved label by a user who may approve:
\* the authorization is the only call, the change stays and nothing is posted.
C13_StepAllowed(u, action, in) ==
    (MayApprove(u) /\ Recorded("label", u, approvedLabel)
       /\ ChangeLabel(u, approvedLabel, action, in)) =>
        /\ handled'.err = ""
        /\ handled'.calls = <<Call("authorize", "", u.Name, "ok")>>
        /\ HasLabel(pullRequest'.labels) <=> ~HasLabel(pullRequest.labels)
        /\ comments' = comments

\* C13: when a label event changed the approved label and its sender fails the
\* authorization, the label is put back to its state before the change and only
\* then the rejection is posted, so the change is not in effect afterwards; when
\* the sender is authorized no label is mutated and no comment is posted.
C13_LabelChangeReverted ==
    [][\A u \in Users, in \in OkInputs,
          action \in {PullRequestActionLabeled, PullRequestActionUnlabeled} :
            C13_StepRefused(u, action, in) /\ C13_StepAllowed(u, action, in)]_vars

\* C13 witness: the author alice put the approved label on her pull request; the
\* plugin took it off again and told her.
C13_Witness ==
    /\ handled.kind = "label" /\ handled.sender = Alice /\ handled.err = ""
    /\ pullRequest.author = Alice
    /\ pullRequest.labels = <<>>
    /\ Len(handled.calls) = 3
    /\ handled.calls[2] = Call("DeleteLabel", approvedLabel, "", "ok")
    /\ handled.calls[3].op = "RegisterComment"

\* The handlings with a token and a client in which the comment post succeeds;
\* the delete of the label may succeed, find no label, or fail.
CancelInputs == {in \in HandleInputs : in.ic = "ok" /\ in.comment}

\* The calls of a handling after its authorization.
AfterAuthorize(calls) == SelectSeq(calls, LAMBDA c : c.op # "authorize")

\* C17, the outcome of a cancellation by user u: the delete of the approved label
\* is the first call; when it succeeds or says that the label does not exist the
\* cancellation notice naming u is posted and no error is returned; any other
\* error of the delete is returned as it is and nothing is posted.
C17_Outcome(u) ==
    LET calls == AfterAuthorize(handled'.calls)
    IN /\ Len(calls) >= 1
       /\ calls[1].op = "DeleteLabel" /\ calls[1].arg = approvedLabel
       /\ calls[1].res \in {"ok", "absent"} =>
             /\ handled'.err = ""
             /\ Count(pullRequest'.labels, approvedLabel) =
                   IF HasLabel(pullRequest.labels)
                   THEN Count(pullRequest.labels, approvedLabel) - 1 ELSE 0
             /\ Len(calls) = 2
             /\ calls[2] = Call("RegisterComment", generateApproveCanceledComment, u.Name, "ok")
             /\ Len(Notices(comments')) = Len(Notices(comments)) + 1
       /\ calls[1].res = "err" =>
             /\ handled'.err = ErrRemote
             /\ Len(calls) = 1
             /\ Notices(comments') = Notices(comments)
             /\ pullRequest'.labels = pullRequest.labels

C17_Step(u, in) ==
    /\ (pullRequest.state = PullRequestStateOpen /\ MayApprove(u)
          /\ Recorded("chatops", u, "/approve cancel")
          /\ PostComment(u, "/approve cancel", in)) => C17_Outcome(u)
    /\ (pullRequest.state = PullRequestStateOpen
          /\ Recorded("review", u, PullRequestReviewStateUnapproved)
          /\ SubmitReview(u, PullRequestReviewStateUnapproved, in)) => C17_Outcome(u)

\* C17: /approve cancel of an authorized sender, or a review event with state
\* Unapproved, deletes the approved label and then posts exactly one cancellation
\* notice naming the canceller; a delete error saying that the label does not
\* exist is swallowed and the notice is still posted, any other delete error is
\* returned unchanged and no notice is posted.
C17_CancelDeletesThenComments ==
    [][\A u \in Users, in \in CancelInputs : C17_Step(u, in)]_vars

\* C17 witness: bob cancelled on a pull request without the label, the remote
\* answered "Label does not exist", and the cancellation notice was posted.
C17_Witness ==
    /\ handled.kind = "chatops" /\ handled.sender = Bob /\ handled.err = ""
    /\ Len(handled.calls) = 3
    /\ handled.calls[2] = Call("DeleteLabel", approvedLabel, "", "absent")
    /\ handled.calls[3] = Call("RegisterComment", generateApproveCanceledComment, "bob", "ok")

\* The label lists of the pull requests in the store.
LabelLists ==
    UNION {{Repos.at[repo].PullRequests[id].Labels : id \in DOMAIN Repos.at[repo].PullRequests} :
              repo \in DOMAIN Repos.at}

\* C19: on the in-memory provider every label name occurs at most once in the
\* label list of a pull request after any sequence of SetLabel and DeleteLabel
\* calls: SetLabel of a label the pull request carries adds no second entry (and
\* DeleteLabel of a label it does not carry returns no error and changes nothing).
C19_LabelNamesUnique ==
    \A labels \in LabelLists : \A l \in Range(labels) : Count(labels, l) <= 1

\* C20, the call: an operation that names a repository which is not in the store
\* returns "404 no such repository", does not panic and leaves the store as it is.
C20_Step ==
    (/\ ncalls' = ncalls + 1 /\ ~Repos.nil
     /\ result'.repo \in Repositories /\ result'.repo \notin DOMAIN Repos.at) =>
        /\ result'.err = "404 no such repository"
        /\ ~result'.panic
        /\ Repos' = Repos

\* C20: every operation of the in-memory client on a repository (webhooks, commit
\* statuses, write-permission check, comments, pull requests, merge, diff, PR
\* commits, labels), called with a repository that is not in the store, returns a
\* "404 no such repository" error, never panics, and leaves the store unchanged.
C20_UnknownRepository == [][C20_Step]_vars

\* C20 witness: SetLabel on the repository test-repo2, which the store does not
\* hold, came back with the 404 error.
C20_Witness ==
    /\ ~Repos.nil /\ result.repo = "test-repo2" /\ result.op = "SetLabel"
    /\ result.err = ErrNoSuchRepository /\ ~result.panic

\* A comment is decisive when it is a review with state Approved or Unapproved, or
\* an /approve command without arguments or with the argument cancel; it says
\* approved in the first case of each pair.
Decisive(c) ==
    \/ c.review \in {PullRequestReviewStateApproved, PullRequestReviewStateUnapproved}
    \/ c.body \in {"/approve", "/approve cancel"}
SaysApproved(c) ==
    \/ c.review = PullRequestReviewStateApproved
    \/ c.review = "" /\ c.body = "/approve"

\* The decisive comments of a list with no decisive comment newer than them.
NewestDecisive(cs) ==
    {i \in 1..Len(cs) :
        /\ Decisive(cs[i])
        /\ \A k \in 1..Len(cs) : Decisive(cs[k]) => cs[k].at <= cs[i].at}

\* C14: the verdict over the comments of a pull request, in whatever order they
\* are listed, is the verdict of the newest decisive comment only: older comments
\* do not change it, and without a decisive comment it is false.
C14_NewestDecisiveWins ==
    result.op = "checkApproval" =>
        IF NewestDecisive(comments) = {} THEN result.out = FALSE
        ELSE result.out \in {SaysApproved(comments[i]) : i \in NewestDecisive(comments)}

\* C14 witness: an /approve listed first, a newer Unapproved review listed second
\* and a later /approve check gave the verdict false.
C14_Witness ==
    /\ result.op = "checkApproval" /\ result.out = FALSE
    /\ Len(comments) = 3
    /\ comments[1].body = "/approve" /\ comments[1].at = 1
    /\ comments[2].review = PullRequestReviewStateUnapproved /\ comments[2].at = 2
    /\ comments[3].body = "/approve check" /\ comments[3].at = 3

\* The last handling made remote calls and every one of them succeeded.
HandledCleanly ==
    /\ nhandled > 0 /\ handled.err = ""
    /\ handled.calls # <<>>
    /\ \A i \in 1..Len(handled.calls) : handled.calls[i].res # "err"

\* The verdict over the comment and review history of the pull request.
Verdict == checkApproval(sortNewestFirst(comments))

\* C16: for an open pull request, after review events, label events and approve
\* commands were handled completely and without remote errors, the approved label
\* is present exactly when the verdict over the history, newest first, is approved.
C16_LabelFollowsVerdict ==
    (pullRequest.state = PullRequestStateOpen /\ HandledCleanly) =>
        (HasLabel(pullRequest.labels) <=> Verdict)

\* C15, the handling: after an /approve check of a user who may approve returned
\* no error the label is on the pull request exactly when the verdict is
\* approved; when label and verdict agreed before, the labels are as they were
\* and no notice was posted.
C15_Step(u, in) ==
    (pullRequest.state = PullRequestStateOpen /\ MayApprove(u)
       /\ Recorded("chatops", u, "/approve check")
       /\ SessionComment(u, "/approve check", in) /\ handled'.err = "") =>
        /\ HasLabel(pullRequest'.labels) <=> checkApproval(sortNewestFirst(comments'))
        /\ (HasLabel(pullRequest.labels) <=> Verdict) =>
              /\ pullRequest'.labels = pullRequest.labels
              /\ Notices(comments') = Notices(comments)

\* C15: after /approve check by an authorized sender completed without error the
\* approved label is present if and only if the verdict is true; when label and
\* verdict already agree the check mutates no label and posts no comment, so a
\* second check right after a successful one changes nothing.
C15_CheckConverges ==
    [][\A u \in SessionUsers, in \in SessionInputs : C15_Step(u, in)]_vars

\* The handling h of an approve or cancel operation changed the label and then
\* failed to post its notice.
LabelDoneCommentFailed(h) ==
    /\ h.kind \in {"chatops", "review"}
    /\ Len(h.calls) >= 2
    /\ h.calls[Len(h.calls) - 1].op \in {"SetLabel", "DeleteLabel"}
    /\ h.calls[Len(h.calls) - 1].res = "ok"
    /\ h.calls[Len(h.calls)].op = "RegisterComment"
    /\ h.calls[Len(h.calls)].res = "err"

\* C18, the failed run: the error of the comment post is returned and the label
\* mutation made before it stays.
C18_Failed ==
    LabelDoneCommentFailed(handled') =>
        /\ handled'.err = ErrRemote
        /\ handled'.calls[Len(handled'.calls) - 1].op = "SetLabel" =>
              HasLabel(pullRequest'.labels)
        /\ handled'.calls[Len(handled'.calls) - 1].op = "DeleteLabel" =>
              Count(pullRequest'.labels, approvedLabel) <= Count(pullRequest.labels, approvedLabel)

\* C18, the retry: the run that succeeds after such a failure leaves the labels
\* as the failed run left them, which is how a single successful run leaves them.
C18_Retried(in) ==
    (LabelDoneCommentFailed(handled) /\ Redeliver(in) /\ handled'.err = "") =>
        pullRequest'.labels = pullRequest.labels

\* C18: when the label mutation of an approve or cancel operation succeeds and
\* the comment post after it fails, the handler returns the error and keeps the
\* mutation; retrying the operation until it succeeds leaves the labels of the
\* pull request equal to those of a single run that succeeded the first time.
C18_RetryLeavesSameLabels ==
    [][C18_Failed /\ \A in \in SessionInputs : C18_Retried(in)]_vars

\* The error values of the 404 class the in-memory provider returns.
NotFoundErrors ==
    {ErrNoSuchPR, ErrNoSuchPr, ErrNoSuchRef, ErrNoSuchUser} \cup
    {ErrNoSuchBranch(b) : b \in BranchNames}

\* The call recorded in r names something that the store, as it is made, does not
\* hold: a pull request, a ref or a user of an existing repository, a branch or a
\* user of the maps that serve all repositories.
NamesAbsent(r) ==
    LET a == r.arg[1]
    IN \/ /\ r.repo \in DOMAIN Repos.at
          /\ LET rp == Repos.at[r.repo]
             IN \/ /\ r.op \in {"GetPullRequest", "MergePullRequest", "ListLabels",
                                "SetLabel", "DeleteLabel"}
                   /\ "PullRequests" \notin rp.Nil /\ a \notin DOMAIN rp.PullRequests
                \/ /\ r.op = "GetPullRequestDiff"
                   /\ "PullRequestDiffs" \notin rp.Nil /\ a \notin DOMAIN rp.PullRequestDiffs
                \/ /\ r.op = "ListPullRequestCommits"
                   /\ "PullRequestCommits" \notin rp.Nil
                   /\ a \notin DOMAIN rp.PullRequestCommits
                \/ /\ r.op = "ListCommitStatuses"
                   /\ "CommitStatuses" \notin rp.Nil /\ a \notin DOMAIN rp.CommitStatuses
                \/ /\ r.op = "CanUserWriteToRepo"
                   /\ "UserCanWrite" \notin rp.Nil /\ a \notin DOMAIN UserCanWrite
       \/ r.op = "GetUserInfo" /\ ~gitfakeUsers.nil /\ a \notin DOMAIN gitfakeUsers.at
       \/ r.op = "GetBranch" /\ ~Branches.nil /\ a \notin DOMAIN Branches.at

\* C21, the call: the operation returned an error of the 404 class, did not
\* panic, and the store is as it was.
C21_Step ==
    (ncalls' = ncalls + 1 /\ result'.arg # <<>> /\ NamesAbsent(result')) =>
        /\ result'.err \in NotFoundErrors
        /\ ~result'.panic
        /\ Repos' = Repos /\ gitfakeUsers' = gitfakeUsers /\ Branches' = Branches

\* C21: on the in-memory provider every operation that names a pull request, ref,
\* branch or user that is absent from an existing repository (GetPullRequest,
\* MergePullRequest, GetPullRequestDiff, ListPullRequestCommits, ListLabels,
\* SetLabel, DeleteLabel, ListCommitStatuses, GetBranch, GetUserInfo,
\* CanUserWriteToRepo) returns a 404-class error value instead of panicking, and
\* leaves the store unchanged.
C21_AbsentIs404 == [][C21_Step]_vars

\* C22, the call: the pull request is closed and not mergeable, the commit list
\* of its base branch is the old one with one commit more, which carries the head
\* sha and the message, and everything else of the repository is as it was.
C22_Step ==
    (/\ ncalls' = ncalls + 1 /\ result'.op = "MergePullRequest"
     /\ result'.err = "" /\ ~result'.panic) =>
        LET repo == result'.repo
            id == result'.arg[1]
            message == result'.arg[2]
            old == Repos.at[repo]
            new == Repos'.at[repo]
            pr == old.PullRequests[id]
            expected == IF message = "" THEN pr.Title \o "(#" \o ToString(pr.ID) \o ")"
                        ELSE message
        IN /\ new.PullRequests[id] =
                  [pr EXCEPT !.State = PullRequestStateClosed, !.Mergeable = FALSE]
           /\ \A other \in DOMAIN old.PullRequests \ {id} :
                  new.PullRequests[other] = old.PullRequests[other]
           /\ DOMAIN new.PullRequests = DOMAIN old.PullRequests
           /\ DOMAIN new.Commits = DOMAIN old.Commits \cup {pr.Base}
           /\ new.Commits[pr.Base] =
                  Append(AtOrNil(old.Commits, pr.Base), [SHA |-> pr.Head, Message |-> expected])
           /\ \A b \in DOMAIN old.Commits \ {pr.Base} : new.Commits[b] = old.Commits[b]
           /\ new.PullRequestCommits = old.PullRequestCommits
           /\ [new EXCEPT !.PullRequests = old.PullRequests, !.Commits = old.Commits] = old
           /\ \A r \in DOMAIN Repos.at \ {repo} : Repos'.at[r] = Repos.at[r]

\* C22: a successful MergePullRequest(id, sha, method, message) on the in-memory
\* provider sets the pull request to state Closed and not mergeable and appends
\* exactly one commit to the commit list of the pull request's base branch,
\* carrying the head sha and the supplied message, or "<PR title>(#<PR id>)" when
\* the message is empty; the commit lists of other branches and of other pull
\* requests are unchanged.
C22_MergeAppendsOneCommit == [][C22_Step]_vars

\* C22 witness: pull request 1 of test-repo was merged with the empty message;
\* main, which had no commits, holds the one commit "fix(#1)" with the head sha,
\* and dev holds what it held.
C22_Witness ==
    /\ result.op = "MergePullRequest" /\ result.arg = <<1, "">>
    /\ result.err = "" /\ ~result.panic /\ ncalls = 1
    /\ Repos.at[TestRepo].PullRequests[1].State = PullRequestStateClosed
    /\ ~Repos.at[TestRepo].PullRequests[1].Mergeable
    /\ Repos.at[TestRepo].Commits["main"] = <<[SHA |-> "sha-1", Message |-> "fix(#1)"]>>
    /\ Repos.at[TestRepo].Commits["dev"] = <<[SHA |-> "sha-0", Message |-> "init"]>>

\* The listing of the server is read without a failure: the URL parses and no
\* request fails.
CleanListing == call.apiURL.valid /\ server.failAt = 0

\* C23, the returned call: one request and one callback per page, the callbacks
\* in page order and each with an object made for it, every request after the
\* first to the "next" URL of the response before it, and no error.
C23_Returned ==
    (call.pc = "done" /\ CleanListing) =>
        /\ call.err = ""
        /\ Len(call.requests) = server.pages
        /\ call.requests[1] = String(withPerPage(call.apiURL))
        /\ \A i \in 2..server.pages :
               call.requests[i] = Find(LinkHeader(i - 1), "next")[1].URL
        /\ Len(call.accumulated) = server.pages
        /\ \A i \in 1..server.pages : call.accumulated[i].items = Items(i)
        /\ \A i, j \in 1..server.pages :
               i # j => call.accumulated[i].obj # call.accumulated[j].obj
        /\ call.made = server.pages

\* C23: for a paged listing of N pages whose last response carries no "next" link
\* relation, GetPaginatedRequest issues exactly N requests, calls the accumulate
\* callback exactly once per page in page order with a freshly created object,
\* and then terminates with no error; each request after the first goes to the
\* "next" URL supplied by the previous response.
C23_PagedListingTerminates ==
    /\ []C23_Returned
    /\ [](Len(call.requests) <= server.pages)
    /\ (call.pc = "loop") ~> (call.pc = "done")

\* C23 witness: a listing of three pages, asked for with a query, was read to its
\* end, the last page coming with a Link header that names only other relations.
C23_Witness ==
    /\ call.pc = "done" /\ CleanListing /\ call.err = ""
    /\ server.pages = MaxPages /\ server.lastLink = "prev"
    /\ call.requests[1] = "/pulls?state=open&per_page=100"
    /\ Len(call.requests) = MaxPages
    /\ call.accumulated[MaxPages].items = <<"item-" \o ToString(MaxPages)>>

\* C24, the calls: the reset time read from an error of the convention is the
\* epoch the error was built with, and the gap to a reset time is that time minus
\* the current unix time.
C24_Step ==
    /\ (/\ ncalls' = ncalls + 1 /\ result'.op = "CheckRateLimitGetResetTime"
        /\ errIn.made \in {"convention", "fake"}) =>
           /\ ~result'.panic
           /\ result'.out = errIn.epoch
    /\ (ncalls' = ncalls + 1 /\ result'.op = "GetGapTime") =>
           /\ ~result'.panic
           /\ result'.out = result'.arg[1] - now

\* C24: for every rate-limit error built with the convention
\* "<sentinel>::<epoch>.<text containing Rate limit exceeded>" (including the one
\* the in-memory provider returns), CheckRateLimitGetResetTime returns exactly
\* that epoch, and GetGapTime(epoch) returns epoch minus the current unix time.
C24_ResetTimeRead == [][C24_Step]_vars

\* C24 witness: at time 1 the reset time 100 was read from the error the
\* in-memory provider made at time 0.
C24_Witness ==
    /\ result.op = "CheckRateLimitGetResetTime" /\ errIn = fakeRateLimitError(0)
    /\ now = 1 /\ result.out = 100 /\ ~result.panic

\* C25, the call: an error that does not follow the convention reads as 0.
C25_Step ==
    (/\ ncalls' = ncalls + 1 /\ result'.op = "CheckRateLimitGetResetTime"
     /\ errIn.made \in {"nil", "other"}) =>
        /\ ~result'.panic
        /\ result'.out = 0

\* C25: for every error that does not match the rate-limit convention, including
\* a nil error, an error without the text "Rate limit exceeded", an error that
\* contains that text but no "::" marker, and an error whose epoch field is not a
\* number, CheckRateLimitGetResetTime returns 0 and does not panic.
C25_OtherErrorsReadZero == [][C25_Step]_vars

\* The texts whose approve command has an argument list that is neither empty nor
\* exactly [cancel] nor exactly [check].
MalformedTexts ==
    {body \in ApproveTexts :
        ExtractCommands(body)[1].Args \notin {<<>>, <<"cancel">>, <<"check">>}}

\* C26, the handling: the authorization and the post of the help comment are the
\* only calls, the labels are as they were, and the help comment is the one
\* notice added.
C26_Step(u, body, in) ==
    (pullRequest.state = PullRequestStateOpen /\ MayApprove(u)
       /\ Recorded("chatops", u, body) /\ PostComment(u, body, in)) =>
        /\ handled'.err = ""
        /\ handled'.calls = <<Call("authorize", "", u.Name, "ok"),
                              Call("RegisterComment", generateHelpComment, "", "ok")>>
        /\ pullRequest'.labels = pullRequest.labels
        /\ Len(Notices(comments')) = Len(Notices(comments)) + 1
        /\ comments'[Len(comments')].body = generateHelpComment

\* C26: for an authorized sender on an open pull request, an approve command
\* whose argument list is neither empty, nor exactly [cancel], nor exactly [check]
\* causes exactly one help comment to be posted and no label mutation.
C26_MalformedGetsHelp ==
    [][\A u \in Users, body \in MalformedTexts, in \in OkInputs : C26_Step(u, body, in)]_vars

\* C26 witness: bob wrote "/approve cancel now" on the approved pull request of
\* alice: the label is still there and the help comment is the newest comment.
C26_Witness ==
    /\ handled.kind = "chatops" /\ handled.sender = Bob /\ handled.err = ""
    /\ handled.arg = "/approve cancel now"
    /\ pullRequest.author = Alice /\ pullRequest.labels = <<approvedLabel>>
    /\ Len(handled.calls) = 2
    /\ comments[Len(comments)].body = generateHelpComment

\* A text with /ci-approve read as /approve, and a history read so.
Unaliased(body) ==
    CASE body = "/ci-approve" -> "/approve"
      [] body = "/ci-approve cancel" -> "/approve cancel"
      [] body = "/ci-approve check" -> "/approve check"
      [] body = "/ci-approve please" -> "/approve please"
      [] OTHER -> body
UnaliasedHistory(cs) == [i \in 1..Len(cs) |-> [cs[i] EXCEPT !.body = Unaliased(@)]]

\* What the handling of the comment of user u does on the history cs: the error,
\* the labels, the calls and the notices.
OutcomeOn(cs, u, body, in) ==
    LET R0 == [Remote EXCEPT !.comments = Append(cs, Comment(u.Name, body, "", "", clock))]
        wh == Webhook(EventTypeIssueComment, u, "", "", {}, pullRequest.labels)
        r == dispatchChatOps(R0, ExtractCommands(body), wh, in)
    IN [err |-> r.err, labels |-> r.R.labels, calls |-> r.R.calls,
        notices |-> Notices(r.R.comments)]

\* C27, the handling: a command does what the same command does with every
\* /ci-approve, in the command and in the history it scans, written as /approve.
C27_Step(u, body, in) ==
    (Recorded("chatops", u, body) /\ PostComment(u, body, in)) =>
        [err |-> handled'.err, labels |-> pullRequest'.labels, calls |-> handled'.calls,
         notices |-> Notices(comments')]
            = OutcomeOn(UnaliasedHistory(comments), u, Unaliased(body), in)

\* C27: the alias /ci-approve behaves exactly like /approve with the same
\* arguments on every path of the approval engine: direct chatops handling
\* (approve, cancel, check, malformed) and the consensus scan, where a /ci-approve
\* or /ci-approve cancel comment is decisive with the same verdict as its /approve
\* counterpart.
C27_AliasBehavesAlike ==
    [][\A u \in Users, body \in AliasTexts, in \in HandleInputs : C27_Step(u, body, in)]_vars

\* C29, the pass: the finalizer list after the removal is the list before it
\* without the job finalizer, the other entries in their order.
C29_Step(j) ==
    (PassStep(j) /\ jobs[j].deleting /\ HasFin(jobs[j])
       /\ pass'.events = <<EvGet, EvNotifyDeletion, Ev("Patch", "remove", "ok")>>) =>
        jobs'[j].finalizers = SelectSeq(jobs[j].finalizers, LAMBDA f : f # finalizer)

\* C29: when the job finalizer is removed in a deletion pass, all other
\* finalizers of the job remain in the list, each exactly once, in the same
\* relative order as before the removal, for every position of the job finalizer
\* in a list of any length.
C29_OrderPreserved == [][\A j \in JobNames : C29_Step(j)]_vars

\* C30, the pass: over a terminal job that is not being deleted the pass reads
\* the job and does nothing else; over a terminal job that is being deleted it
\* notifies the scheduler once and patches the finalizer away.
C30_Step(j) ==
    /\ (/\ PassStep(j) /\ jobs[j].exists /\ ~jobs[j].deleting /\ HasFin(jobs[j])
        /\ jobs[j].status.completed /\ GotJob) =>
           /\ pass'.events = <<EvGet>>
           /\ pass'.err = ""
           /\ jobs' = jobs
           /\ slots' = slots /\ released' = released
    /\ (/\ PassStep(j) /\ jobs[j].exists /\ jobs[j].deleting /\ HasFin(jobs[j])
        /\ jobs[j].status.completed /\ GotJob) =>
           /\ Len(pass'.events) >= 3
           /\ pass'.events[2] = EvNotifyDeletion
           /\ CountOp(pass'.events, "Notify") = 1
           /\ pass'.events[3].op = "Patch" /\ pass'.events[3].arg = "remove"
           /\ pass'.events[3].res = "ok" =>
                 /\ ~HasFin(jobs'[j])
                 /\ jobs'[j].status = jobs[j].status

\* C30: a routine pass over a terminal job (finalizer present, no deletion
\* timestamp, CompletionTime set) fetches neither config nor run, persists nothing
\* and does not notify the scheduler; a deletion pass over a terminal job still
\* notifies the scheduler exactly once and removes the finalizer.
C30_TerminalSkipped == [][\A j \in JobNames : C30_Step(j)]_vars

\* C30 witness: the last pass ran over a terminal job that holds the finalizer
\* and is not being deleted, and only read the job.
C30_Witness ==
    /\ pass.job \in JobNames
    /\ pass.events = <<EvGet>> /\ pass.err = ""
    /\ jobs[pass.job].exists /\ ~jobs[pass.job].deleting
    /\ HasFin(jobs[pass.job]) /\ jobs[pass.job].status.completed

\* C28, the jobs: each job has the finalizer list, the status and the deletion
\* mark that its own passes, run one by one on it alone, give it.
C28_AsRunAlone ==
    \A j \in ConcurrentJobs :
        /\ jobs[j].finalizers = alone[j].finalizers
        /\ jobs[j].status = alone[j].status
        /\ jobs[j].exists = alone[j].exists /\ jobs[j].deleting = alone[j].deleting

\* C28, the pass: a pass that returns has read the job as it is stored now, and
\* leaves the objects of the other jobs and the instances of their passes alone.
C28_Step(j) ==
    ReconcileEnd(j) =>
        /\ running[j].inst = jobs[j]
        /\ \A k \in ConcurrentJobs \ {j} : jobs'[k] = jobs[k] /\ running'[k] = running[k]

IndexOfOp(evs, op) ==
    IF \E i \in 1..Len(evs) : evs[i].op = op
    THEN CHOOSE i \in 1..Len(evs) : evs[i].op = op /\ \A k \in 1..(i - 1) : evs[k].op # op
    ELSE 0

C31_Step(j) ==
    PassStep(j) =>
        LET evs == pass'.events
            ir == IndexOfOp(evs, "ReflectStatus")
        IN /\ Has(evs, Ev("GetRun", "", "notfound")) =>
                 /\ \E res \in {"ok", "err"} : Has(evs, Ev("ReflectStatus", "nil", res))
                 /\ Has(evs, Ev("ReflectStatus", "nil", "ok")) =>
                       /\ CountOp(evs, "StatusPatch") = 1
                       /\ \E res \in {"ok", "err"} : Has(evs, Ev("StatusPatch", "status", res))
                       /\ ~Has(evs, Ev("StatusPatch", "failed", "ok"))
                       /\ jobs'[j].status.state = IntegrationJobStateFailed =>
                             jobs[j].status.state = IntegrationJobStateFailed
           /\ CountOp(evs, "ReflectStatus") <= 1
           /\ CountOp(evs, "StatusPatch") <= 1
           /\ ir > 0 => \A i \in 1..Len(evs) : evs[i].op = "StatusPatch" => i > ir

C31_MissingRunIsNoError == [][\A j \in JobNames : C31_Step(j)]_vars

\* A pass found no run, reflected a nil run and stored a Pending status.
C31_Witness ==
    /\ pass.job = "job-1"
    /\ Has(pass.events, Ev("GetRun", "", "notfound"))
    /\ Has(pass.events, Ev("ReflectStatus", "nil", "ok"))
    /\ LastEv(pass.events) = Ev("Notify", "deferred", "ok")
    /\ Has(pass.events, Ev("StatusPatch", "status", "ok"))
    /\ jobs["job-1"].status.state = IntegrationJobStatePending

\* ---------------------------------------------------------------------------
\* C32: whenever a status persist of a pass fails, the persist of patchJobFailed
\* included, Reconcile returns a non-nil error: no pass ends with a nil result
\* while a status patch it issued was refused.
C32_Step(j) ==
    PassStep(j) =>
        ((\E arg \in {"status", "failed"} : Has(pass'.events, Ev("StatusPatch", arg, "err")))
            => pass'.err # "")

C32_FailedPersistReturned == [][\A j \in JobNames : C32_Step(j)]_vars

\* ---------------------------------------------------------------------------
\* C40: when the patch that adds or removes the job finalizer fails, Reconcile
\* returns a non-nil error and the stored job, finalizers and status, is as it
\* was before the pass.
C40_Step(j) ==
    PassStep(j) =>
        ((\E arg \in {"add", "remove"} : Has(pass'.events, Ev("Patch", arg, "err")))
            => /\ pass'.err # ""
               /\ jobs'[j] = jobs[j])

C40_FinalizerPersistFailureReported == [][\A j \in JobNames : C40_Step(j)]_vars

\* ---------------------------------------------------------------------------
\* The privilege lookup of the sender fails: the sender is not the author and
\* the repository does not know the name.
LookupFails(u) == u.ID # pullRequest.author.ID /\ u.Name \notin DOMAIN UserCanWrite

\* The handlings in which the config has a token and a client.
ClientInputs == {in \in HandleInputs : in.ic = "ok"}

\* C33, a comment command of a sender whose privilege lookup fails: the error of
\* the lookup is returned, the authorization is the only call, no notice is
\* posted and the labels are as they were.
C33_StepChatOps(u, body, in) ==
    (Recorded("chatops", u, body) /\ pullRequest.state = PullRequestStateOpen
       /\ LookupFails(u) /\ PostComment(u, body, in)) =>
        /\ handled'.err = CanUserWriteToRepo(u).err
        /\ handled'.err # ""
        /\ handled'.calls = <<Call("authorize", "", u.Name, "error")>>
        /\ Notices(comments') = Notices(comments)
        /\ pullRequest'.labels = pullRequest.labels

\* C33, a change of the approved label by such a sender: the error is returned,
\* the authorization is the only call, the change stays and nothing is posted.
C33_StepLabel(u, action, in) ==
    (Recorded("label", u, approvedLabel) /\ LookupFails(u)
       /\ ChangeLabel(u, approvedLabel, action, in)) =>
        /\ handled'.err = CanUserWriteToRepo(u).err
        /\ handled'.err # ""
        /\ handled'.calls = <<Call("authorize", "", u.Name, "error")>>
        /\ comments' = comments
        /\ HasLabel(pullRequest'.labels) <=> ~HasLabel(pullRequest.labels)

\* C33, the notice to a sender who may not approve cannot be posted: the error of
\* the post is returned, the post is the last call and no notice is added.
C33_NoticeRefused(u) ==
    /\ handled'.err = ErrRemote
    /\ LastEv(handled'.calls) =
          Call("RegisterComment", generateUserUnauthorizedComment, u.Name, "err")
    /\ Notices(comments') = Notices(comments)

C33_StepNoticeChatOps(u, body, in) ==
    (Recorded("chatops", u, body) /\ pullRequest.state = PullRequestStateOpen
       /\ MayNotApprove(u) /\ ~in.comment /\ PostComment(u, body, in)) => C33_NoticeRefused(u)

C33_StepNoticeLabel(u, action, in) ==
    (Recorded("label", u, approvedLabel) /\ MayNotApprove(u) /\ ~in.comment
       /\ in.label # "err" /\ ChangeLabel(u, approvedLabel, action, in)) => C33_NoticeRefused(u)

\* C33: when the authorization fails with an error that is not Unauthorized (the
\* lookup of the write privilege failed), the chatops handler and the label-event
\* handler return that error unchanged, post no comment and mutate no label; the
\* failure of the post of the unauthorized notice is returned unchanged too.
C33_LookupErrorReturned ==
    [][\A u \in Users, in \in ClientInputs :
          /\ \A body \in ApproveTexts :
                C33_StepChatOps(u, body, in) /\ C33_StepNoticeChatOps(u, body, in)
          /\ \A action \in {PullRequestActionLabeled, PullRequestActionUnlabeled} :
                C33_StepLabel(u, action, in) /\ C33_StepNoticeLabel(u, action, in)]_vars

\* C33 witness: dave, whom the repository does not know, took the approved label
\* off the pull request of alice: the lookup error came back, the label stayed
\* off and nothing was posted.
C33_Witness ==
    /\ handled.kind = "label" /\ handled.sender = Dave /\ handled.arg = approvedLabel
    /\ handled.err = ErrNoSuchUser
    /\ handled.calls = <<Call("authorize", "", "dave", "error")>>
    /\ pullRequest.author = Alice /\ pullRequest.labels = <<>>
    /\ comments = <<>>

\* ---------------------------------------------------------------------------
\* The outcome of the label event of user u with the stated action, on the pull
\* request as it is: what Handle returns for it.
LabelEventOutcome(u, label, action, in) ==
    LET labels == IF label \in Range(pullRequest.labels)
                  THEN SelectSeq(pullRequest.labels, LAMBDA l : l # label)
                  ELSE Append(pullRequest.labels, label)
        R0 == [Remote EXCEPT !.labels = labels]
    IN Handle(R0, Webhook(EventTypePullRequest, u, action, "", {label}, labels), in)

OtherAction(action) ==
    IF action = PullRequestActionLabeled THEN PullRequestActionUnlabeled
    ELSE PullRequestActionLabeled

\* C35, the handling of one label event: the calls made, the error returned and
\* the remote state afterwards are those of the same event with the other action
\* stated; when the changed label is not the approved label no call is made (the
\* only error there can be is that of building the client), nothing is posted
\* and the change stays.
C35_Step(u, label, action, in) ==
    (Recorded("label", u, label) /\ ChangeLabel(u, label, action, in)) =>
        LET o == LabelEventOutcome(u, label, OtherAction(action), in)
        IN /\ handled'.calls = o.R.calls
           /\ handled'.err = o.err
           /\ pullRequest'.labels = o.R.labels
           /\ comments' = o.R.comments
           /\ label # approvedLabel =>
                 /\ handled'.calls = <<>>
                 /\ handled'.err \in {"", ErrGitCli}
                 /\ comments' = comments
                 /\ (label \in Range(pullRequest'.labels)) <=>
                       (label \notin Range(pullRequest.labels))

\* C35: the handling of a label event depends on the labels the pull request
\* has now, the changed labels, the sender and the author only: two events that
\* differ in the stated action (labeled, unlabeled) produce the same remote
\* calls, and an event whose changed labels do not hold 'approved' produces none.
C35_ActionNotTrusted ==
    [][\A u \in Users, label \in {approvedLabel, OtherLabel}, in \in HandleInputs,
          action \in {PullRequestActionLabeled, PullRequestActionUnlabeled} :
            C35_Step(u, label, action, in)]_vars

\* C35 witness: carol, who has no write privilege, took the approved label off
\* and the event said "labeled": the plugin set the label again and told her.
C35_Witness ==
    /\ handled.kind = "label" /\ handled.sender = Carol /\ handled.arg = approvedLabel
    /\ handled.err = ""
    /\ Len(handled.calls) = 3
    /\ handled.calls[2] = Call("SetLabel", approvedLabel, "", "ok")
    /\ handled.calls[3].op = "RegisterComment"
    /\ pullRequest.labels = <<approvedLabel>>

\* ---------------------------------------------------------------------------
\* The error the failing page of the server gives the caller.
PageError ==
    CASE server.failKind = "transport" -> ErrTransport
      [] server.failKind = "status" -> ErrStatus
      [] server.failKind = "body" -> ErrUnmarshal

\* C34, the call on a server whose page failAt fails: no request is repeated and
\* none goes beyond the failing page; the returned call has made one request per
\* page up to the failing one, gives the error of that page, and has accumulated
\* the pages before it, in order, and not the failing page.
C34_Failed ==
    (call.apiURL.valid /\ server.failAt > 0) =>
        /\ Len(call.requests) <= server.failAt
        /\ \A i, k \in 1..Len(call.requests) : i # k => call.requests[i] # call.requests[k]
        /\ Len(call.accumulated) <= server.failAt - 1
        /\ call.pc = "done" =>
              /\ call.err = PageError
              /\ Len(call.requests) = server.failAt
              /\ Len(call.accumulated) = server.failAt - 1
              /\ \A i \in 1..(server.failAt - 1) : call.accumulated[i].items = Items(i)

\* C34: GetPaginatedRequest never retries: when a page request fails (transport
\* error, status outside 2xx) or a page cannot be decoded, it returns that error
\* at once, issues no further request, does not call the accumulate callback for
\* the failing page, and the pages accumulated before stay accumulated.
C34_NoRetry ==
    /\ []C34_Failed
    /\ [][call.pc = "done" => call' = call]_vars
    /\ [][Len(call.accumulated) <= Len(call'.accumulated)
            /\ SubSeq(call'.accumulated, 1, Len(call.accumulated)) = call.accumulated]_vars

\* C34 witness: the third page of a listing could not be decoded: three requests,
\* the first two pages accumulated, the decoding error returned.
C34_Witness ==
    /\ call.pc = "done" /\ call.apiURL.valid
    /\ server.failAt = MaxPages /\ server.failKind = "body"
    /\ call.err = ErrUnmarshal
    /\ Len(call.requests) = MaxPages
    /\ Len(call.accumulated) = MaxPages - 1
    /\ call.accumulated[MaxPages - 1].items = Items(MaxPages - 1)

\* ---------------------------------------------------------------------------
\* The comments listed in another order.
Reordered(cs, p) == [i \in 1..Len(cs) |-> cs[p[i]]]

\* C38: the verdict is a function of the set of comments: for the same comments
\* every order in which the provider lists them gives the same verdict, also when
\* two decisive comments with opposite verdicts have equal creation times.
C38_VerdictOrderFree ==
    result.op = "checkApproval" =>
        \A p \in Permutations(1..Len(comments)) :
            checkApproval(sortNewestFirst(Reordered(comments, p))) = result.out

\* ---------------------------------------------------------------------------
\* The comment checkApproval stops at: the first comment of the list that is a
\* review with a state or carries a decisive command; <<>> when there is none.
RECURSIVE DecisiveComment(_)
DecisiveComment(cs) ==
    IF cs = <<>> THEN <<>>
    ELSE IF \/ Head(cs).review \in {PullRequestReviewStateApproved,
                                    PullRequestReviewStateUnapproved}
            \/ commandVerdict(ExtractCommands(Head(cs).body)) # ""
    THEN <<Head(cs)>>
    ELSE DecisiveComment(Tail(cs))

\* The user of that name may approve on the pull request.
NameMayApprove(name) == \E u \in Users : u.Name = name /\ MayApprove(u)

\* C37, the handling of an /approve check that set the approved label: the
\* comment the verdict came from was written by a user who is not the author of
\* the pull request and has write privilege.
C37_Step(u) ==
    (/\ Recorded("chatops", u, "/approve check")
     /\ Has(handled'.calls, Call("SetLabel", approvedLabel, "", "ok"))) =>
        LET d == DecisiveComment(sortNewestFirst(comments))
        IN d # <<>> /\ NameMayApprove(d[1].author)

\* C37: whenever the approved label is set as the result of /approve check, the
\* decisive comment acted on was written by a user who is not the author of the
\* pull request and has write privilege: an /approve comment of an unauthorized
\* user in the history never leads to the label being set.
C37_CheckHonoursAuthorization == [][\A u \in Users : C37_Step(u)]_vars

\* ---------------------------------------------------------------------------
\* C36, the handling of a label event that a rollback of the plugin produced: no
\* label call is made and the labels stay.
C36_Step(in) ==
    (nhandled >= 1 /\ DeliverLabelEvent(in)) =>
        /\ \A i \in 1..Len(handled'.calls) :
               handled'.calls[i].op \notin {"SetLabel", "DeleteLabel"}
        /\ pullRequest'.labels = pullRequest.labels

\* C36: the label event that the plugin's own rollback produces does not start
\* another rollback: whatever account the plugin works with (the author of the
\* pull request and an account without write privilege included), the chain of
\* label events started by the label change of a user who may not approve ends,
\* with the approved label in its state before that change.
C36_RollbackChainEnds ==
    /\ [][\A in \in ChainInputs : C36_Step(in)]_vars
    /\ (delivery # <<>> /\ nhandled = 0 /\ MayNotApprove(Head(delivery).Sender))
          ~> (delivery = <<>> /\ (HasLabel(pullRequest.labels) <=> labelBefore))

\* ---------------------------------------------------------------------------
\* Both handlers have returned without an error.
BothReturned ==
    /\ DOMAIN handlers = {"approve", "cancel"}
    /\ \A h \in DOMAIN handlers : handlers[h] = [pc |-> "returned", err |-> ""]

\* C39: when an approval and a cancellation of the same pull request are handled
\* at the same time, each a label mutation followed by the post of a
\* confirmation, every interleaving of their calls ends with the approved label
\* on the pull request exactly when the confirmation posted last is that of the
\* approval.
C39_LabelMatchesLastConfirmation ==
    BothReturned =>
        (HasLabel(pullRequest.labels) <=>
            comments[Len(comments)].body = generateApprovedComment)

====
